---- MODULE Spec2Model ----
(***************************************************************************)
(* Object memory and execution-frame core of RSqueak (spyvm): the value    *)
(* representations of model.py, the storage strategies of storage.py and   *)
(* the context shadows of storage_contexts.py, as state machines.          *)
(*                                                                         *)
(* The build is the 32-bit one the code assumes (model.py:405-409 treats a *)
(* word with bit 31 set as negative after intmask), so machine integers    *)
(* are signed 32-bit values here.                                          *)
(***************************************************************************)
EXTENDS Integers, Sequences, FiniteSets, TLC

VARIABLES
    heap,          \* object id -> the object's attributes (model.py)
    shadow_w_self, \* shadow strategy -> the object it points back to (_w_self)
    nextVersion,   \* the next Version() object to be allocated
    lastStored,    \* history: object id -> index -> last value stored there
    net,           \* history: context -> values pushed minus values popped
    seenHash,      \* history: object id -> the last gethash() result since the
                   \*          last become involving the object
    hist           \* history: the last operation, its arguments and its result

vars == <<heap, shadow_w_self, nextVersion, lastStored, net, seenHash, hist>>

(***************************************************************************)
(* Bounds of the model                                                     *)
(***************************************************************************)
MaxSize == 3          \* slots of the generic slotted object under test
MaxVersion == 3       \* Version() objects allocated in one run

(***************************************************************************)
(* Program constants                                                       *)
(***************************************************************************)
MAXINT == 2147483647      \* constants.MAXINT on the 32-bit build
FloatMax == 99            \* code standing for sys.float_info.max

(***************************************************************************)
(* Wrapped values (W_Object instances as seen through is_same_object).     *)
(* Small integers and floats are compared by value (model.py:288-291,      *)
(* 510-513); a float is named by an integer code, FloatMax being the code  *)
(* of sys.float_info.max.                                                  *)
(***************************************************************************)
w_nil == [t |-> "nil", v |-> 0]
wrap_int(n) == [t |-> "int", v |-> n]
wrap_float(c) == [t |-> "float", v |-> c]
w_obj(k) == [t |-> "obj", v |-> k]

unwrap_int(w) == w.v
unwrap_float(w) == w.v

\* the values a store may be given: nil, small integers (the sentinel among
\* them), floats (the sentinel among them) and another object
StoreValues ==
    {w_nil, wrap_int(3), wrap_int(MAXINT), wrap_float(1), wrap_float(FloatMax), w_obj(1)}

(***************************************************************************)
(* Storage strategies (storage.py)                                         *)
(***************************************************************************)
\* contained_type of the two tagging strategies
contained_type(s) ==
    CASE s = "SmallIntegerOrNilStrategy" -> "int"
      [] s = "FloatOrNilStrategy" -> "float"

\* the raw value that stands for nil in a tagging strategy's storage
unwrapped_tagged_value(s) ==
    CASE s = "SmallIntegerOrNilStrategy" -> MAXINT
      [] s = "FloatOrNilStrategy" -> FloatMax

wrapped_tagged_value(s) == w_nil

\* wrap / unwrap of the two tagging strategies
FloatOrNil_wrap_as_int(s, raw) == wrap_int(raw)
strategy_wrap(s, raw) ==
    CASE s = "SmallIntegerOrNilStrategy" -> wrap_int(raw)
      [] s = "FloatOrNilStrategy" -> wrap_float(raw)

strategy_unwrap(s, w) ==
    CASE s = "SmallIntegerOrNilStrategy" -> unwrap_int(w)
      [] s = "FloatOrNilStrategy" -> unwrap_float(w)

IsTagging(s) == s \in {"SmallIntegerOrNilStrategy", "FloatOrNilStrategy"}

\* a check that lets a tagging strategy take its own sentinel value
_check_can_handle_unreserved(s, w) ==
    CASE s = "AllNilStrategy" -> w = w_nil
      [] IsTagging(s) ->
            \/ w = wrapped_tagged_value(s)
            \/ w.t = contained_type(s)
      [] s = "ListStrategy" -> TRUE

\* _check_can_handle: AllNil holds only nil, a tagging strategy holds nil and
\* every value of its type but the sentinel, List holds everything
_check_can_handle(s, w) ==
    CASE s = "AllNilStrategy" -> w = w_nil
      [] IsTagging(s) ->
            \/ w = wrapped_tagged_value(s)
            \/ (w.t = contained_type(s)
                /\ strategy_unwrap(s, w) # unwrapped_tagged_value(s))
      [] s = "ListStrategy" -> TRUE

\* _unwrap / _wrap: what a strategy keeps in its storage for a value
_unwrap(s, w) ==
    CASE IsTagging(s) ->
            IF w = wrapped_tagged_value(s) THEN unwrapped_tagged_value(s)
            ELSE strategy_unwrap(s, w)
      [] s = "ListStrategy" -> w

_wrap(s, raw) ==
    CASE IsTagging(s) ->
            IF raw = unwrapped_tagged_value(s) THEN wrapped_tagged_value(s)
            ELSE strategy_wrap(s, raw)
      [] s = "ListStrategy" -> raw

\* @rstrat.strategy(generalize=[...]) declarations, in their order
generalize(s) ==
    CASE s = "AllNilStrategy" ->
            <<"SmallIntegerOrNilStrategy", "FloatOrNilStrategy", "ListStrategy">>
      [] s = "SmallIntegerOrNilStrategy" -> <<"ListStrategy">>
      [] s = "FloatOrNilStrategy" -> <<"ListStrategy">>
      [] s = "ListStrategy" -> <<>>

\* a lookup that takes the last declared generalization able to hold the value
generalized_strategy_for_last(s, w) ==
    LET g == generalize(s)
        ok == {k \in 1..Len(g) : _check_can_handle(g[k], w)}
    IN  g[CHOOSE k \in ok : \A j \in ok : k >= j]

\* the first declared generalization able to hold the value
generalized_strategy_for(s, w) ==
    LET g == generalize(s)
        ok == {k \in 1..Len(g) : _check_can_handle(g[k], w)}
    IN  g[CHOOSE k \in ok : \A j \in ok : k <= j]

strategy_size(s, st) ==
    IF s = "AllNilStrategy" THEN st.size ELSE Len(st)

\* fetch; slots are numbered from 0 as in the code
strategy_fetch(s, st, n0) ==
    IF s = "AllNilStrategy" THEN w_nil ELSE _wrap(s, st[n0 + 1])

_initialize_storage(s, size) ==
    IF s = "AllNilStrategy" THEN [size |-> size]
    ELSE [k \in 1..size |-> _unwrap(s, w_nil)]

\* the storage of the new strategy, built from the old strategy's slots
_convert_storage_from(new, old, st) ==
    IF old = "AllNilStrategy" THEN _initialize_storage(new, strategy_size(old, st))
    ELSE [k \in 1..strategy_size(old, st) |-> _unwrap(new, strategy_fetch(old, st, k - 1))]

\* store: kept if the strategy can hold the value, otherwise the object is
\* generalized, its slots converted, and the store retried.  The result is
\* the object's (strategy, storage) pair after the store.
strategy_store(s, st, n0, w) ==
    LET put(s1, st1) ==
            IF s1 = "AllNilStrategy" THEN st1
            ELSE [st1 EXCEPT ![n0 + 1] = _unwrap(s1, w)]
    IN  IF _check_can_handle(s, w)
        THEN [strategy |-> s, _storage |-> put(s, st)]
        ELSE LET new == generalized_strategy_for(s, w)
             IN  [strategy |-> new,
                  _storage |-> put(new, _convert_storage_from(new, s, st))]

\* StrategyFactory.empty_storage_type for a non-weak object
empty_storage_type(no_specialized_storage) ==
    IF no_specialized_storage THEN "ListStrategy" ELSE "AllNilStrategy"

\* the order of the lattice: AllNil < {SmallIntegerOrNil, FloatOrNil} < List
StrategyRank(s) ==
    CASE s = "AllNilStrategy" -> 0
      [] IsTagging(s) -> 1
      [] s = "ListStrategy" -> 2

(***************************************************************************)
(* W_GenericPointersObject (model.py)                                      *)
(***************************************************************************)
\* W_GenericPointersObject(space, w_class, size)
NewGenericPointersObject(w_class, size, no_specialized_storage) ==
    LET s == empty_storage_type(no_specialized_storage)
    IN  [cls |-> "W_GenericPointersObject", hash |-> MAXINT, w_class |-> w_class,
         strategy |-> s, _storage |-> _initialize_storage(s, size)]

GPO_size(o) == strategy_size(o.strategy, o._storage)
GPO_fetch(o, n0) == strategy_fetch(o.strategy, o._storage, n0)
GPO_store_respecialize(o, n0, w) ==
    LET r == strategy_store(o.strategy, o._storage, n0, w)
        n == strategy_size(r.strategy, r._storage)
        all == [k \in 1..n |-> strategy_fetch(r.strategy, r._storage, k - 1)]
    IN  IF \A k \in 1..n : all[k] = w_nil
        THEN [o EXCEPT !.strategy = "AllNilStrategy", !._storage = [size |-> n]]
        ELSE [o EXCEPT !.strategy = r.strategy, !._storage = r._storage]
GPO_store(o, n0, w) ==
    LET r == strategy_store(o.strategy, o._storage, n0, w)
    IN  [o EXCEPT !.strategy = r.strategy, !._storage = r._storage]

(***************************************************************************)
(* Specification of the strategy subsystem: one fresh generic slotted      *)
(* object, stores of every kind of value into every slot.                  *)
(***************************************************************************)
NoHist == [op |-> "none"]
NoContexts == [c \in {} |-> 0]
NoShadows == [sh \in {} |-> "None"]
NotSeen == [seen |-> FALSE, hash |-> 0]

InitStrategy ==
    /\ \E size \in 1..MaxSize, flag \in BOOLEAN :
          heap = [o \in {"g"} |-> NewGenericPointersObject("Array", size, flag)]
    /\ lastStored = [o \in {"g"} |-> [k \in 1..GPO_size(heap[o]) |-> w_nil]]
    /\ net = NoContexts
    /\ shadow_w_self = NoShadows
    /\ nextVersion = 0
    /\ seenHash = [o \in {"g"} |-> NotSeen]
    /\ hist = NoHist

Store(o, n0, w) ==
    /\ heap' = [heap EXCEPT ![o] = GPO_store(heap[o], n0, w)]
    /\ lastStored' = [lastStored EXCEPT ![o][n0 + 1] = w]
    /\ hist' = [op |-> "store", obj |-> o, n0 |-> n0, w |-> w,
                before |-> heap[o].strategy]
    /\ UNCHANGED <<shadow_w_self, nextVersion, net, seenHash>>

NextStrategy ==
    \E o \in DOMAIN heap, w \in StoreValues :
        \E n0 \in 0..(GPO_size(heap[o]) - 1) : Store(o, n0, w)

SpecStrategy == InitStrategy /\ [][NextStrategy]_vars

(***************************************************************************)
(* Objects of model.py.  An object is a record of its class (cls) and its  *)
(* attributes, named as in the class's _attrs_.  An attribute that holds   *)
(* None where it otherwise holds a list is NoneSeq.                        *)
(***************************************************************************)
NoneSeq == <<-1>>
UNASSIGNED_HASH == MAXINT     \* sys.maxint

Classes ==
    {"W_LargePositiveInteger1Word", "W_Float", "W_BytesObject", "W_WordsObject",
     "W_CompiledMethod", "W_SmallPointersObject", "W_GenericPointersObject"}

\* rarithmetic.r_uint on the 32-bit build: the signed integer as an unsigned
\* word [hi |-> bit 31, lo |-> bits 0..30]
r_uint(i) == IF i < 0 THEN [hi |-> 1, lo |-> (i + MAXINT) + 1] ELSE [hi |-> 0, lo |-> i]

\* None in the words attribute, which otherwise holds a list of words
NoneWords == <<[hi |-> -1, lo |-> -1]>>

\* the k-th sample object of a class (k in 1..3); the samples of one class
\* differ in every attribute, except that the third bytes object holds the
\* bytes of the first and the third float the value of the first
SampleHash(k) == <<UNASSIGNED_HASH, 11, 12>>[k]
Sample(cls, k) ==
    CASE cls = "W_SmallInteger" -> [cls |-> cls, value |-> k]
      [] cls = "W_LargePositiveInteger1Word" ->
            [cls |-> cls, hash |-> SampleHash(k),
             value |-> <<1, -1, 258>>[k], _exposed_size |-> <<1, 4, 2>>[k]]
      [] cls = "W_Float" ->
            [cls |-> cls, hash |-> SampleHash(k), value |-> <<1, 2, 1>>[k]]
      [] cls = "W_BytesObject" ->
            [cls |-> cls, hash |-> SampleHash(k),
             w_class |-> <<"String", "Symbol", "ByteArray">>[k],
             version |-> -k,
             bytes |-> <<(<<97>>), (<<98, 99>>), (<<97>>)>>[k],
             c_bytes |-> NoneSeq,
             _size |-> <<1, 2, 1>>[k]]
      [] cls = "W_WordsObject" ->
            [cls |-> cls, hash |-> SampleHash(k),
             w_class |-> <<"Bitmap", "WordArray", "Bitmap">>[k],
             words |-> <<(<<r_uint(1)>>), (<<r_uint(2), r_uint(-3)>>),
                         (<<r_uint(1)>>)>>[k],
             c_words |-> NoneSeq,
             _size |-> <<1, 2, 1>>[k]]
      [] cls = "W_CompiledMethod" ->
            [cls |-> cls, hash |-> SampleHash(k),
             version |-> -k,
             header |-> <<0, 1025, 2050>>[k],
             _primitive |-> <<0, 1, 2>>[k],
             literalsize |-> <<0, 1, 2>>[k],
             islarge |-> <<FALSE, TRUE, FALSE>>[k],
             _tempsize |-> <<0, 2, 3>>[k],
             argsize |-> <<0, 1, 2>>[k],
             bytes |-> <<(<<112>>), (<<16, 124>>), (<<120>>)>>[k],
             literals |-> <<(<<>>), (<<w_obj(1)>>), (<<w_nil, w_obj(2)>>)>>[k],
             lookup_selector |-> <<"<unknown>", "foo", "bar">>[k],
             compiledin_class |-> <<"None", "ClassA", "ClassB">>[k],
             lookup_class |-> <<"None", "ClassA", "ClassB">>[k]]
      [] cls = "W_SmallPointersObject" ->
            [cls |-> cls, hash |-> SampleHash(k),
             w_class |-> <<"Point", "Association", "Fraction">>[k],
             _size |-> <<2, 3, 1>>[k],
             f1 |-> <<wrap_int(1), w_obj(1), w_nil>>[k],
             f2 |-> <<wrap_int(2), w_obj(2), w_nil>>[k],
             f3 |-> <<w_nil, wrap_float(1), w_nil>>[k],
             f4 |-> w_nil]
      [] cls = "W_GenericPointersObject" ->
            [cls |-> cls, hash |-> SampleHash(k),
             w_class |-> <<"Array", "Metaclass", "MethodDictionary">>[k],
             strategy |-> <<"SmallIntegerOrNilStrategy", "ClassShadow#2",
                            "ObserveeShadow#3">>[k],
             _storage |-> <<(<<3, MAXINT, 5>>),
                            (<<w_obj(1), w_nil, wrap_int(4), w_nil, w_nil, w_nil>>),
                            (<<w_obj(2)>>)>>[k]]

\* every attribute of a class but the class itself and the version tag
ContentAttrs(o) == DOMAIN o \ {"cls", "version"}

(***************************************************************************)
(* Identity hash (W_AbstractObjectWithIdentityHash)                        *)
(***************************************************************************)
\* a 32-bit unsigned word as [hi |-> bit 31, lo |-> bits 0..30]
HashWords ==
    {[hi |-> 0, lo |-> MAXINT], [hi |-> 1, lo |-> 0], [hi |-> 1, lo |-> MAXINT]}

\* rarithmetic.intmask on the 32-bit build: the word as a signed integer
intmask(w) == IF w.hi = 1 THEN (w.lo - MAXINT) - 1 ELSE w.lo

\* gethash(): the pair (hash attribute afterwards, value returned) when the
\* random generator's next word is w
gethash(o, w) ==
    IF o.hash = UNASSIGNED_HASH
    THEN [hash |-> intmask(w) \div 2, result |-> intmask(w) \div 2]
    ELSE [hash |-> o.hash, result |-> o.hash]

HasIdentityHash(o) == o.cls \notin {"W_SmallInteger", "W_Float"}

(***************************************************************************)
(* become                                                                  *)
(***************************************************************************)
\* exchange the named attributes of objects a and b
Swap(h, a, b, attrs) ==
    [h EXCEPT
       ![a] = [f \in DOMAIN h[a] |->
                 IF f \in attrs /\ f \in DOMAIN h[b] THEN h[b][f] ELSE h[a][f]],
       ![b] = [f \in DOMAIN h[b] |->
                 IF f \in attrs /\ f \in DOMAIN h[a] THEN h[a][f] ELSE h[b][f]]]

\* the attributes each class's _become exchanges, its superclasses' included
W_AbstractObjectWithIdentityHash_become == {"hash"}
W_AbstractObjectWithClassReference_become ==
    {"w_class"} \cup W_AbstractObjectWithIdentityHash_become
become_attrs(cls) ==
    CASE cls = "W_LargePositiveInteger1Word" ->
            {"value", "_exposed_size"} \cup W_AbstractObjectWithIdentityHash_become
      [] cls = "W_Float" ->
            {"value"} \cup W_AbstractObjectWithIdentityHash_become
      [] cls = "W_BytesObject" ->
            {"bytes", "c_bytes", "_size"} \cup W_AbstractObjectWithClassReference_become
      [] cls = "W_WordsObject" ->
            {"words", "c_words", "_size"} \cup W_AbstractObjectWithClassReference_become
      [] cls = "W_CompiledMethod" ->
            {"argsize", "_primitive", "literals", "_tempsize", "bytes", "header",
             "literalsize", "islarge", "lookup_selector", "compiledin_class"}
            \cup W_AbstractObjectWithIdentityHash_become
      [] cls = "W_SmallPointersObject" ->
            {"_size", "f1", "f2", "f3", "f4"}
            \cup W_AbstractObjectWithClassReference_become
      [] cls = "W_GenericPointersObject" ->
            {"strategy", "_storage"} \cup W_AbstractObjectWithClassReference_become

\* Version() objects the receiver's _become allocates: mutate() on the
\* receiver of a bytes become, changed() on both methods of a method become
become_versions(cls) ==
    CASE cls = "W_BytesObject" -> 1
      [] cls = "W_CompiledMethod" -> 2
      [] OTHER -> 0

become_new_versions(h, a, b, nv) ==
    CASE h[a].cls = "W_BytesObject" -> [h EXCEPT ![a].version = nv]
      [] h[a].cls = "W_CompiledMethod" ->
            [h EXCEPT ![a].version = nv, ![b].version = nv + 1]
      [] OTHER -> h

\* is_same_object: identity, but equal value for floats and equal bytes for
\* bytes objects
is_same_object(h, a, b) ==
    CASE a = b -> TRUE
      [] h[a].cls = "W_Float" -> h[b].cls = "W_Float" /\ h[a].value = h[b].value
      [] h[a].cls = "W_BytesObject" ->
            /\ h[b].cls = "W_BytesObject"
            /\ h[a]._size = h[b]._size
            /\ (IF h[a].bytes = NoneSeq THEN SubSeq(h[a].c_bytes, 1, h[a]._size)
                ELSE h[a].bytes)
               = (IF h[b].bytes = NoneSeq THEN SubSeq(h[b].c_bytes, 1, h[b]._size)
                  ELSE h[b].bytes)
      [] OTHER -> FALSE

can_become_any(h, a, b) == TRUE
can_become(h, a, b) == h[a].cls = h[b].cls

\* W_Object.become (small integers) fails; the others fail on another class
\* and on the same object
become_result(h, a, b) ==
    /\ h[a].cls # "W_SmallInteger"
    /\ can_become(h, a, b)
    /\ ~is_same_object(h, a, b)

\* shadows: strategies that point back to their object
is_shadow(sh) == sh \in DOMAIN shadow_w_self
handles_become(sh) == is_shadow(sh)

\* ShadowMixin.onesided_become alone
ShadowMixin_onesided_become(h, sws, sh, w_other) == [sws EXCEPT ![sh] = w_other]

\* ShadowMixin.become of shadow sh, for the object w_other
ShadowMixin_become(h, sws, sh, w_other) ==
    LET w_self == sws[sh]
        one == [sws EXCEPT ![sh] = w_other]
    IN  IF "strategy" \in DOMAIN h[w_other] /\ h[w_other].strategy \in DOMAIN sws
        THEN [one EXCEPT ![h[w_other].strategy] = w_self]
        ELSE one

\* the shadows' back-references after W_GenericPointersObject._become
GPO_become_shadows(h, sws, a, b) ==
    IF h[a].cls # "W_GenericPointersObject" THEN sws
    ELSE IF handles_become(h[a].strategy)
         THEN ShadowMixin_become(h, sws, h[a].strategy, b)
         ELSE IF "strategy" \in DOMAIN h[b] /\ handles_become(h[b].strategy)
              THEN ShadowMixin_become(h, sws, h[b].strategy, a)
              ELSE sws

\* _become of a's class, with b
DoBecome(h, a, b, nv) ==
    become_new_versions(Swap(h, a, b, become_attrs(h[a].cls)), a, b, nv)

AttributeError == [raise |-> "AttributeError"]

\* On Python the attribute c_bytes (c_words) does not exist before the first
\* convert_to_c_layout: _become of a bytes or words object then raises
\* AttributeError when it reads it, after the lists were exchanged.
\* Translated, the attribute is a null pointer and is exchanged.
become_unset(h, a, b) ==
    /\ h[a].cls \in {"W_BytesObject", "W_WordsObject"}
    /\ become_result(h, a, b)
    /\ \/ /\ h[a].cls = "W_BytesObject"
          /\ (h[a].c_bytes = NoneSeq \/ h[b].c_bytes = NoneSeq)
       \/ /\ h[a].cls = "W_WordsObject"
          /\ (h[a].c_words = NoneSeq \/ h[b].c_words = NoneSeq)

Become(a, b) ==
    /\ nextVersion + become_versions(heap[a].cls) <= MaxVersion
    /\ \/ /\ IF become_result(heap, a, b)
             THEN /\ heap' = DoBecome(heap, a, b, nextVersion)
                  /\ shadow_w_self' = GPO_become_shadows(heap, shadow_w_self, a, b)
                  /\ nextVersion' = nextVersion + become_versions(heap[a].cls)
                  /\ seenHash' = [seenHash EXCEPT ![a] = NotSeen, ![b] = NotSeen]
             ELSE UNCHANGED <<heap, shadow_w_self, nextVersion, seenHash>>
          /\ hist' = [op |-> "become", a |-> a, b |-> b,
                      result |-> become_result(heap, a, b)]
       \/ /\ become_unset(heap, a, b)
          /\ heap' = Swap(heap, a, b, {"bytes", "words"})
          /\ hist' = [op |-> "become_raised", a |-> a, b |-> b,
                      result |-> AttributeError]
          /\ UNCHANGED <<shadow_w_self, nextVersion, seenHash>>
    /\ UNCHANGED <<lastStored, net>>

GetHash(o) ==
    /\ HasIdentityHash(heap[o])
    /\ \E w \in HashWords :
          LET r == gethash(heap[o], w)
          IN  /\ heap' = [heap EXCEPT ![o].hash = r.hash]
              /\ seenHash' = [seenHash EXCEPT ![o] = [seen |-> TRUE, hash |-> r.result]]
              /\ hist' = [op |-> "gethash", obj |-> o, result |-> r.result,
                          before |-> seenHash[o]]
    /\ UNCHANGED <<shadow_w_self, nextVersion, lastStored, net>>

MaxAttach == 1                \* shadows created by as_special_get_shadow in one run

\* the shadow instances the factory creates, in the order of their creation
ShadowNames(TheClass) ==
    CASE TheClass = "ObserveeShadow" ->
            <<"ObserveeShadow#4", "ObserveeShadow#5", "ObserveeShadow#6">>
      [] TheClass = "CachedObjectShadow" ->
            <<"CachedObjectShadow#4", "CachedObjectShadow#5", "CachedObjectShadow#6">>

\* isinstance(shadow, TheClass) for a strategy of the model
strategy_isinstance(s, TheClass) ==
    \/ (TheClass = "ObserveeShadow"
        /\ s \in {"ObserveeShadow#3"} \cup {ShadowNames(TheClass)[i] : i \in 1..3})
    \/ (TheClass = "CachedObjectShadow"
        /\ s \in {ShadowNames(TheClass)[i] : i \in 1..3})

\* the wrapped values of every slot, as the new strategy reads them from
\* the previous one
GPO_fetch_all(o) ==
    IF is_shadow(o.strategy) THEN o._storage
    ELSE [k \in 1..GPO_size(o) |-> GPO_fetch(o, k - 1)]

\* a switch that attaches the new strategy with every slot nil
switch_strategy_fresh(o, sh) ==
    [o EXCEPT !.strategy = sh, !._storage = [k \in 1..Len(GPO_fetch_all(o)) |-> w_nil]]

\* switch_strategy: a new strategy instance of TheClass created for the
\* object, its storage converted from the previous strategy, then attached
switch_strategy(o, sh) ==
    [o EXCEPT !.strategy = sh, !._storage = GPO_fetch_all(o)]

ValueError == [raise |-> "ValueError"]

\* ContextPartShadow.__init__ given a pointers object: the object's class
\* decides is_block_context, and any other class is refused
ContextPartShadow_init(w_class) ==
    CASE w_class = "BlockContext" -> [is_block_context |-> TRUE]
      [] w_class = "MethodContext" -> [is_block_context |-> FALSE]
      [] OTHER -> ValueError

\* as_special_get_shadow(space, TheClass) of generic object o
AttachShadow(o, TheClass) ==
    /\ heap[o].cls = "W_GenericPointersObject"
    /\ LET created == Cardinality(DOMAIN shadow_w_self) - 2
           sh == ShadowNames(TheClass)[created + 1]
       IN  IF strategy_isinstance(heap[o].strategy, TheClass)
           THEN /\ UNCHANGED <<heap, shadow_w_self>>
                /\ hist' = [op |-> "as_special_get_shadow", obj |-> o,
                            TheClass |-> TheClass, result |-> heap[o].strategy]
           ELSE IF TheClass = "ContextPartShadow"
           THEN /\ ContextPartShadow_init(heap[o].w_class) = ValueError
                /\ UNCHANGED <<heap, shadow_w_self>>
                /\ hist' = [op |-> "as_special_get_shadow_raised", obj |-> o,
                            TheClass |-> TheClass,
                            result |-> ContextPartShadow_init(heap[o].w_class)]
           ELSE /\ created < MaxAttach
                /\ heap' = [heap EXCEPT ![o] = switch_strategy(heap[o], sh)]
                /\ shadow_w_self' =
                      [s \in DOMAIN shadow_w_self \cup {sh} |->
                          IF s = sh THEN o ELSE shadow_w_self[s]]
                /\ hist' = [op |-> "as_special_get_shadow", obj |-> o,
                            TheClass |-> TheClass, result |-> sh]
    /\ UNCHANGED <<nextVersion, lastStored, net, seenHash>>

\* two objects of one class and a third of any class
InitBecome ==
    /\ \E K1 \in Classes, K2 \in Classes \cup {"W_SmallInteger"} :
          heap = [o \in {"a", "b", "c"} |->
                    CASE o = "a" -> Sample(K1, 1)
                      [] o = "b" -> Sample(K1, 2)
                      [] o = "c" -> Sample(K2, 3)]
    /\ shadow_w_self =
          [sh \in {"ClassShadow#2", "ObserveeShadow#3"} |->
              IF sh = "ClassShadow#2"
              THEN (IF heap["b"].cls = "W_GenericPointersObject" THEN "b" ELSE "None")
              ELSE (IF heap["c"].cls = "W_GenericPointersObject" THEN "c" ELSE "None")]
    /\ nextVersion = 0
    /\ lastStored = [o \in {} |-> <<>>]
    /\ net = NoContexts
    /\ seenHash = [o \in {"a", "b", "c"} |-> NotSeen]
    /\ hist = NoHist

NextBecome ==
    \/ \E a \in DOMAIN heap, b \in DOMAIN heap : Become(a, b)
    \/ \E o \in DOMAIN heap : GetHash(o)
    \/ \E o \in DOMAIN heap,
          TheClass \in {"ObserveeShadow", "CachedObjectShadow", "ContextPartShadow"} :
          AttachShadow(o, TheClass)

SpecBecome == InitBecome /\ [][NextBecome]_vars

(***************************************************************************)
(* Indexed access: W_LargePositiveInteger1Word.at0 / atput0,               *)
(* W_SmallPointersObject.fetch / store, W_BytesObject.getchar / setchar    *)
(***************************************************************************)
\* an operation that raises, and one whose effect the build leaves undefined
IndexError == [raise |-> "IndexError"]
Undefined == [raise |-> "undefined"]
AssertionError == [raise |-> "AssertionError"]

\* v >> shift on a signed machine integer: from 31 bits on only the sign is
\* left
asr(v, shift) ==
    IF shift >= 31 THEN (IF v < 0 THEN -1 ELSE 0) ELSE v \div (2 ^ shift)

\* byte i (0..3) of a signed 32-bit integer, and the integer of four bytes
ByteOf(v, i) == asr(v, 8 * i) % 256
FromBytes(b) ==
    b[1] + 256 * b[2] + 65536 * b[3]
      + 16777216 * (IF b[4] >= 128 THEN b[4] - 256 ELSE b[4])

\* at0: no check of the index against size(); a shift of 32 bits or more is
\* 0 or -1 in Python and the shift modulo 32 on a 32-bit processor
LPI_at0(o, index0) ==
    LET shift == index0 * 8
    IN  IF shift >= 32
        THEN {wrap_int(asr(o.value, shift) % 256), wrap_int(asr(o.value, shift % 32) % 256)}
        ELSE {wrap_int(asr(o.value, shift) % 256)}

\* atput0: IndexError at or beyond size(), otherwise byte index0 is replaced
LPI_atput0(o, index0, byte) ==
    IF index0 >= o._exposed_size THEN IndexError
    ELSE [o EXCEPT !.value =
             FromBytes([k \in 1..4 |-> IF k = index0 + 1 THEN byte ELSE ByteOf(o.value, k - 1)])]

SPO_size(o) == o._size

\* fetch / store: IndexError unless 0 <= index0 < size() and index0 < 4
SPO_fetch(o, index0) ==
    IF ~(0 <= index0 /\ index0 < SPO_size(o)) THEN IndexError
    ELSE CASE index0 = 0 -> o.f1
           [] index0 = 1 -> o.f2
           [] index0 = 2 -> o.f3
           [] index0 = 3 -> o.f4
           [] OTHER -> IndexError

SPO_store(o, index0, w) ==
    IF ~(0 <= index0 /\ index0 < SPO_size(o)) THEN IndexError
    ELSE CASE index0 = 0 -> [o EXCEPT !.f1 = w]
           [] index0 = 1 -> [o EXCEPT !.f2 = w]
           [] index0 = 2 -> [o EXCEPT !.f3 = w]
           [] index0 = 3 -> [o EXCEPT !.f4 = w]
           [] OTHER -> IndexError

\* getchar on the list representation: bytes[n0]; beyond the list this is
\* IndexError when run on Python and an unchecked read when translated
Bytes_getchar(o, n0) ==
    IF o.bytes = NoneSeq
    THEN (IF n0 >= o._size THEN {IndexError} ELSE {wrap_int(o.c_bytes[n0 + 1])})
    ELSE (IF n0 >= Len(o.bytes) THEN {IndexError, Undefined}
          ELSE {wrap_int(o.bytes[n0 + 1])})

\* setchar: the byte is written, then mutate() gives a new version; beyond
\* the list or the buffer the write is IndexError on Python (list only) and an
\* unchecked write when translated.  The foreign buffer is one byte longer
\* than size(): it ends with the terminator str2charp wrote.
Bytes_setchar(o, n0, ch, nv) ==
    IF o.bytes = NoneSeq
    THEN (IF n0 >= Len(o.c_bytes) THEN {Undefined}
          ELSE {[o EXCEPT !.c_bytes[n0 + 1] = ch, !.version = nv]})
    ELSE (IF n0 >= Len(o.bytes) THEN {IndexError, Undefined}
          ELSE {[o EXCEPT !.bytes[n0 + 1] = ch, !.version = nv]})

\* getword: the assert on the index is checked on Python only; the word is
\* read from the list, or from the foreign buffer as an unsigned word
Words_getword(o, n) ==
    IF ~(o._size > n /\ n >= 0) THEN {AssertionError, Undefined}
    ELSE IF o.words = NoneWords THEN {r_uint(o.c_words[n + 1])}
    ELSE {o.words[n + 1]}

\* setword: no check of the index; the foreign buffer holds signed integers
Words_setword(o, n, word) ==
    IF o.words = NoneWords
    THEN (IF n >= Len(o.c_words) THEN {IndexError, Undefined}
          ELSE {[o EXCEPT !.c_words[n + 1] = intmask(word)]})
    ELSE (IF n >= Len(o.words) THEN {IndexError, Undefined}
          ELSE {[o EXCEPT !.words[n + 1] = r_uint(intmask(word))]})

\* rffi.str2charp: a fresh buffer of the characters and a terminating 0
str2charp(chars) == Append(chars, 0)

\* unwrap_string: the size() characters of the list or of the buffer
Bytes_unwrap_string(o) ==
    IF o.bytes = NoneSeq THEN [i \in 1..o._size |-> o.c_bytes[i]] ELSE o.bytes

\* convert_to_c_layout: the object afterwards, the buffer returned and
\* whether a buffer was allocated; nv is the version mutate() creates
Bytes_convert_to_c_layout_zeroed(o, nv) ==
    IF o.bytes = NoneSeq
    THEN [obj |-> o, result |-> o.c_bytes, allocated |-> FALSE]
    ELSE LET c_bytes == [i \in 1..(o._size + 1) |-> 0]
         IN  [obj |-> [o EXCEPT !.c_bytes = c_bytes, !.bytes = NoneSeq, !.version = nv],
              result |-> c_bytes, allocated |-> TRUE]

Bytes_convert_to_c_layout(o, nv) ==
    IF o.bytes = NoneSeq
    THEN [obj |-> o, result |-> o.c_bytes, allocated |-> FALSE]
    ELSE LET c_bytes == str2charp(Bytes_unwrap_string(o))
         IN  [obj |-> [o EXCEPT !.c_bytes = c_bytes, !.bytes = NoneSeq, !.version = nv],
              result |-> c_bytes, allocated |-> TRUE]

Words_convert_to_c_layout(o) ==
    IF o.words = NoneWords
    THEN [obj |-> o, result |-> o.c_words, allocated |-> FALSE]
    ELSE LET c_words == [i \in 1..o._size |-> intmask(o.words[i])]
         IN  [obj |-> [o EXCEPT !.c_words = c_words, !.words = NoneWords],
              result |-> c_words, allocated |-> TRUE]

\* size() and the element at an index, for the classes read by index
W_size(o) ==
    CASE o.cls = "W_LargePositiveInteger1Word" -> o._exposed_size
      [] OTHER -> o._size

\* the values a read of element i can give
W_at0(o, i) ==
    CASE o.cls = "W_LargePositiveInteger1Word" -> LPI_at0(o, i)
      [] o.cls = "W_SmallPointersObject" -> {SPO_fetch(o, i)}
      [] o.cls = "W_BytesObject" -> Bytes_getchar(o, i)
      [] o.cls = "W_WordsObject" -> Words_getword(o, i)

\* store_all on a small pointers object of the collection's length
SPO_store_all(o, collection) ==
    [o EXCEPT !.f1 = IF 1 <= Len(collection) THEN collection[1] ELSE w_nil,
              !.f2 = IF 2 <= Len(collection) THEN collection[2] ELSE w_nil,
              !.f3 = IF 3 <= Len(collection) THEN collection[3] ELSE w_nil,
              !.f4 = IF 4 <= Len(collection) THEN collection[4] ELSE w_nil]

SPO_fetch_all(o) == [i \in 1..SPO_size(o) |-> SPO_fetch(o, i - 1)]

\* clone: a new object built by the class's constructor, then filled
LPI_clone(o) ==
    [cls |-> o.cls, hash |-> UNASSIGNED_HASH, value |-> o.value, _exposed_size |-> 4]

SPO_clone(o) ==
    SPO_store_all([cls |-> o.cls, hash |-> UNASSIGNED_HASH, w_class |-> o.w_class,
                   _size |-> Len(SPO_fetch_all(o)),
                   f1 |-> w_nil, f2 |-> w_nil, f3 |-> w_nil, f4 |-> w_nil],
                  SPO_fetch_all(o))

Bytes_clone(o, nv) ==
    [cls |-> o.cls, hash |-> UNASSIGNED_HASH, w_class |-> o.w_class, version |-> nv,
     bytes |-> IF o.bytes = NoneSeq THEN [i \in 1..o._size |-> o.c_bytes[i]] ELSE o.bytes,
     c_bytes |-> NoneSeq, _size |-> o._size]

Words_clone(o) ==
    [cls |-> o.cls, hash |-> UNASSIGNED_HASH, w_class |-> o.w_class,
     words |-> IF o.words = NoneWords THEN [i \in 1..o._size |-> r_uint(o.c_words[i])]
               ELSE o.words,
     c_words |-> NoneSeq, _size |-> o._size]

clone(o, nv) ==
    CASE o.cls = "W_LargePositiveInteger1Word" -> LPI_clone(o)
      [] o.cls = "W_SmallPointersObject" -> SPO_clone(o)
      [] o.cls = "W_BytesObject" -> Bytes_clone(o, nv)
      [] o.cls = "W_WordsObject" -> Words_clone(o)

MaxIndex == 4                 \* indices 0..MaxIndex are tried
ByteValues == {0, 7, 255}
WordValues == {r_uint(5), r_uint(-1)}
FieldValues == {w_nil, wrap_int(3), w_obj(1)}

\* the slot of the heap no object has been allocated in yet
NoObject == [cls |-> "None"]

IsFailure(r) == "raise" \in DOMAIN r

IndexedUnchanged == UNCHANGED <<shadow_w_self, lastStored, net, seenHash>>

At0(o, index0) ==
    /\ heap[o].cls = "W_LargePositiveInteger1Word"
    /\ \E r \in LPI_at0(heap[o], index0) :
          hist' = [op |-> "at0", obj |-> o, index |-> index0,
                   size |-> heap[o]._exposed_size, result |-> r]
    /\ UNCHANGED <<heap, nextVersion>>
    /\ IndexedUnchanged

\* (bound: a large integer is stored into only before it is cloned)
Atput0(o, index0, byte) ==
    /\ heap[o].cls = "W_LargePositiveInteger1Word"
    /\ \A c \in DOMAIN heap : heap[c].cls # "None"
                                 => heap[c].cls = "W_LargePositiveInteger1Word" /\ c = o
    /\ LET r == LPI_atput0(heap[o], index0, byte)
       IN  /\ heap' = IF IsFailure(r) THEN heap ELSE [heap EXCEPT ![o] = r]
           /\ hist' = [op |-> "atput0", obj |-> o, index |-> index0,
                       size |-> heap[o]._exposed_size,
                       result |-> IF IsFailure(r) THEN r ELSE w_nil]
    /\ UNCHANGED nextVersion
    /\ IndexedUnchanged

Fetch(o, index0) ==
    /\ heap[o].cls = "W_SmallPointersObject"
    /\ hist' = [op |-> "fetch", obj |-> o, index |-> index0,
                size |-> SPO_size(heap[o]), result |-> SPO_fetch(heap[o], index0)]
    /\ UNCHANGED <<heap, nextVersion>>
    /\ IndexedUnchanged

StoreField(o, index0, w) ==
    /\ heap[o].cls = "W_SmallPointersObject"
    /\ LET r == SPO_store(heap[o], index0, w)
       IN  /\ heap' = IF IsFailure(r) THEN heap ELSE [heap EXCEPT ![o] = r]
           /\ hist' = [op |-> "store", obj |-> o, index |-> index0,
                       size |-> SPO_size(heap[o]),
                       result |-> IF IsFailure(r) THEN r ELSE w_nil]
    /\ UNCHANGED nextVersion
    /\ IndexedUnchanged

Getchar(o, n0) ==
    /\ heap[o].cls = "W_BytesObject"
    /\ \E r \in Bytes_getchar(heap[o], n0) :
          hist' = [op |-> "getchar", obj |-> o, index |-> n0,
                   size |-> heap[o]._size, result |-> r]
    /\ UNCHANGED <<heap, nextVersion>>
    /\ IndexedUnchanged

Setchar(o, n0, ch) ==
    /\ heap[o].cls = "W_BytesObject"
    /\ nextVersion < MaxVersion
    /\ \E r \in Bytes_setchar(heap[o], n0, ch, nextVersion) :
          /\ heap' = IF IsFailure(r) THEN heap ELSE [heap EXCEPT ![o] = r]
          /\ nextVersion' = IF IsFailure(r) THEN nextVersion ELSE nextVersion + 1
          /\ hist' = [op |-> "setchar", obj |-> o, index |-> n0, value |-> ch,
                      size |-> heap[o]._size,
                      result |-> IF IsFailure(r) THEN r ELSE w_nil]
    /\ IndexedUnchanged

Getword(o, n) ==
    /\ heap[o].cls = "W_WordsObject"
    /\ \E r \in Words_getword(heap[o], n) :
          hist' = [op |-> "getword", obj |-> o, index |-> n,
                   size |-> heap[o]._size, result |-> r]
    /\ UNCHANGED <<heap, nextVersion>>
    /\ IndexedUnchanged

Setword(o, n, word) ==
    /\ heap[o].cls = "W_WordsObject"
    /\ \E r \in Words_setword(heap[o], n, word) :
          /\ heap' = IF IsFailure(r) THEN heap ELSE [heap EXCEPT ![o] = r]
          /\ hist' = [op |-> "setword", obj |-> o, index |-> n, value |-> word,
                      size |-> heap[o]._size,
                      result |-> IF IsFailure(r) THEN r ELSE w_nil]
    /\ UNCHANGED nextVersion
    /\ IndexedUnchanged

ConvertToCLayout(o) ==
    /\ heap[o].cls \in {"W_BytesObject", "W_WordsObject"}
    /\ nextVersion < MaxVersion
    /\ LET r == IF heap[o].cls = "W_BytesObject"
                THEN Bytes_convert_to_c_layout(heap[o], nextVersion)
                ELSE Words_convert_to_c_layout(heap[o])
       IN  /\ heap' = [heap EXCEPT ![o] = r.obj]
           /\ nextVersion' = IF r.allocated /\ heap[o].cls = "W_BytesObject"
                             THEN nextVersion + 1 ELSE nextVersion
           /\ hist' = [op |-> "convert_to_c_layout", obj |-> o,
                       result |-> r.result, allocated |-> r.allocated]
    /\ IndexedUnchanged

Clone(o, c) ==
    /\ heap[o].cls \in {"W_LargePositiveInteger1Word", "W_SmallPointersObject",
                        "W_BytesObject", "W_WordsObject"}
    /\ heap[c] = NoObject
    /\ nextVersion < MaxVersion
    /\ heap' = [heap EXCEPT ![c] = clone(heap[o], nextVersion)]
    /\ nextVersion' = IF heap[o].cls = "W_BytesObject" THEN nextVersion + 1
                      ELSE nextVersion
    /\ hist' = [op |-> "clone", obj |-> o, result |-> c]
    /\ IndexedUnchanged

InitIndexed ==
    /\ \E K \in {"W_LargePositiveInteger1Word", "W_SmallPointersObject", "W_BytesObject",
                  "W_WordsObject"},
          k \in 1..3 :
          heap = [o \in {"a", "c"} |-> IF o = "a" THEN Sample(K, k) ELSE NoObject]
    /\ shadow_w_self = NoShadows
    /\ nextVersion = 0
    /\ lastStored = [o \in {} |-> <<>>]
    /\ net = NoContexts
    /\ seenHash = [o \in {"a", "c"} |-> NotSeen]
    /\ hist = NoHist

NextIndexed ==
    \/ \E o \in DOMAIN heap, index0 \in 0..MaxIndex : At0(o, index0)
    \/ \E o \in DOMAIN heap, index0 \in 0..MaxIndex, byte \in ByteValues :
          Atput0(o, index0, byte)
    \/ \E o \in DOMAIN heap, index0 \in 0..MaxIndex : Fetch(o, index0)
    \/ \E o \in DOMAIN heap, index0 \in 0..MaxIndex, w \in FieldValues :
          StoreField(o, index0, w)
    \/ \E o \in DOMAIN heap, n0 \in 0..MaxIndex : Getchar(o, n0)
    \/ \E o \in DOMAIN heap, n0 \in 0..MaxIndex, ch \in ByteValues :
          Setchar(o, n0, ch)
    \/ \E o \in DOMAIN heap, n \in 0..MaxIndex : Getword(o, n)
    \/ \E o \in DOMAIN heap, n \in 0..MaxIndex, word \in WordValues :
          Setword(o, n, word)
    \/ \E o \in DOMAIN heap : ConvertToCLayout(o)
    \/ \E o \in {"a"} : Clone(o, "c")

SpecIndexed == InitIndexed /\ [][NextIndexed]_vars

(***************************************************************************)
(* Foreign buffers: bytes and words objects under convert_to_c_layout,     *)
(* clone and become.  A buffer is referenced from the c_bytes (c_words)    *)
(* attribute alone; convert_to_c_layout allocates it, become exchanges the *)
(* references and no operation copies one.                                 *)
(***************************************************************************)
\* the native array and the buffer reference of a bytes or words object
native_array(o) == IF o.cls = "W_BytesObject" THEN o.bytes ELSE o.words
foreign_buffer(o) == IF o.cls = "W_BytesObject" THEN o.c_bytes ELSE o.c_words
no_native_array(o) ==
    IF o.cls = "W_BytesObject" THEN o.bytes = NoneSeq ELSE o.words = NoneWords

\* __del__ releases the buffer of an object without native array
del_releases(o) == no_native_array(o)

\* (bound: no operation is tried on an object that a failed become left
\* without native array and without buffer, or with the array of another
\* size)
Intact(o) ==
    /\ heap[o] # NoObject
    /\ IF no_native_array(heap[o]) THEN foreign_buffer(heap[o]) # NoneSeq
       ELSE Len(native_array(heap[o])) = heap[o]._size

InitForeign ==
    /\ \E K \in {"W_BytesObject", "W_WordsObject"} :
          heap = [o \in {"a", "b", "c"} |->
                    CASE o = "a" -> Sample(K, 1)
                      [] o = "b" -> Sample(K, 2)
                      [] o = "c" -> NoObject]
    /\ shadow_w_self = NoShadows
    /\ nextVersion = 0
    /\ lastStored = [o \in {} |-> <<>>]
    /\ net = NoContexts
    /\ seenHash = [o \in {"a", "b", "c"} |-> NotSeen]
    /\ hist = NoHist

NextForeign ==
    \/ \E o \in DOMAIN heap : Intact(o) /\ ConvertToCLayout(o)
    \/ \E o \in {"a", "b"} : Intact(o) /\ Clone(o, "c")
    \/ \E a \in DOMAIN heap, b \in DOMAIN heap : Intact(a) /\ Intact(b) /\ Become(a, b)
    \/ \E o \in DOMAIN heap, n0 \in 0..1, ch \in ByteValues : Intact(o) /\ Setchar(o, n0, ch)

SpecForeign == InitForeign /\ [][NextForeign]_vars

(***************************************************************************)
(* Contexts of storage_contexts.py.  A ContextPartShadow is a record of    *)
(* its attributes; "H" is a method context and "B" a block context whose   *)
(* home is "H".  The pointers object a context is the strategy of is the   *)
(* value w_ctx(k); it has no state of its own, since the context holds     *)
(* all of its storage.  A block closure is a record of its start pc, its   *)
(* number of arguments and its captured values (copied).                   *)
(***************************************************************************)
MaxDepth == 2                 \* values pushed above the temporaries
MaxPop == 2                   \* largest n given to pop_n
MaxTemp == 2                  \* temp indices 0..MaxTemp are written
MaxUnderflow == 1             \* how far below slot 0 the stack pointer is followed

CTXPART_SENDER_INDEX == 0
CTXPART_PC_INDEX == 1
CTXPART_STACKP_INDEX == 2
MTHDCTX_METHOD == 3
MTHDCTX_CLOSURE_OR_NIL == 4
MTHDCTX_RECEIVER == 5
MTHDCTX_TEMP_FRAME_START == 6
BLKCTX_BLOCK_ARGUMENT_COUNT_INDEX == 3
BLKCTX_INITIAL_IP_INDEX == 4
BLKCTX_HOME_INDEX == 5
BLKCTX_STACK_START == 6
MethodContext_instsize == 6
BYTES_PER_WORD == 4

NoContext == [cls |-> "None"]

\* failures besides IndexError and AssertionError
WrapperException == [raise |-> "WrapperException"]
UnwrappingError == [raise |-> "UnwrappingError"]

\* None where a pointers object is expected, and the pointers object whose
\* strategy is (or is to become) context number k
w_None == [t |-> "None", v |-> 0]
w_ctx(k) == [t |-> "ctx", v |-> k]

compute_frame_size(w_method) ==
    16 + (IF w_method.islarge THEN 1 ELSE 0) * 40 + w_method.argsize

\* the object space of the model is one of an image that uses block contexts
uses_block_contexts == TRUE

pure_is_block_context(ctx) ==
    IF uses_block_contexts THEN ctx.is_block_context ELSE FALSE

\* a BlockClosure as seen through its wrapper: startpc(), numArgs(), and
\* the captured values at0(0) .. at0(size() - 1)
BlockClosure(startpc, numArgs, copied) ==
    [t |-> "closure", startpc |-> startpc, numArgs |-> numArgs, copied |-> copied]

BlockClosure_size(closure) == Len(closure.copied)
BlockClosure_at0(closure, i0) == closure.copied[i0 + 1]

\* BlockClosureWrapper.tempsize: the captured values and the arguments
BlockClosure_tempsize(closure) == BlockClosure_size(closure) + closure.numArgs

is_closure_context_method_context(ctx) == ctx.closure.t # "None"

tempsize(ctx) ==
    IF pure_is_block_context(ctx) THEN 0
    ELSE IF ~is_closure_context_method_context(ctx) THEN ctx._w_method._tempsize
    ELSE BlockClosure_tempsize(ctx.closure)

stackstart(ctx) ==
    IF pure_is_block_context(ctx) THEN BLKCTX_STACK_START ELSE MTHDCTX_TEMP_FRAME_START

stackend(ctx) == ctx._w_self_size

stacksize(ctx) == stackend(ctx) - stackstart(ctx)

full_stacksize(ctx) ==
    IF ~ctx.is_block_context THEN compute_frame_size(ctx._w_method) ELSE stacksize(ctx)

init_temps_and_stack(ctx) ==
    [ctx EXCEPT !._temps_and_stack = [i \in 1..full_stacksize(ctx) |-> w_nil],
                !._stack_ptr = tempsize(ctx)]

stackdepth(ctx) == ctx._stack_ptr

\* the possible results of stack_get: below slot 0 the assert fails on Python
\* and the read is unchecked when translated, likewise beyond the buffer
stack_get(ctx, index0) ==
    IF index0 < 0 THEN {AssertionError, Undefined}
    ELSE IF index0 >= Len(ctx._temps_and_stack) THEN {IndexError, Undefined}
    ELSE {ctx._temps_and_stack[index0 + 1]}

\* stack_put for an index inside the buffer
stack_put(ctx, index0, w_val) ==
    [ctx EXCEPT !._temps_and_stack[index0 + 1] = w_val]

InBuffer(ctx, index0) == 0 <= index0 /\ index0 < Len(ctx._temps_and_stack)

\* What one operation on a context can do: the context afterwards, the
\* result, the values pushed minus the values popped, and whether the state
\* of the context is still defined.
Outcome(ctx, result, dn, defined) ==
    [ctx |-> ctx, result |-> result, dn |-> dn, defined |-> defined]

\* as_context_get_shadow of a pointers object whose strategy is a context
as_context_get_shadow(h, w) ==
    CHOOSE c \in DOMAIN h : h[c].cls = "ContextPartShadow" /\ h[c]._w_self = w

HasShadow(h, w) ==
    \E c \in DOMAIN h : h[c].cls = "ContextPartShadow" /\ h[c]._w_self = w

\* s_home: a block context's home is the context shadow of _w_home, a
\* method context without closure is its own home
s_home(h, c) ==
    IF pure_is_block_context(h[c]) THEN as_context_get_shadow(h, h[c]._w_home) ELSE c

w_receiver(h, c) ==
    IF pure_is_block_context(h[c]) THEN h[s_home(h, c)]._w_receiver
    ELSE h[c]._w_receiver

\* pop: below slot 0 the receiver is the result, then "assert ptr >= 0"
\* raises on Python; translated, the assert is gone and the pointer is stored
pop(h, c) ==
    LET ctx == h[c]
        ptr == ctx._stack_ptr - 1
    IN  IF ptr < 0
        THEN {Outcome(ctx, AssertionError, 0, TRUE),
              Outcome([ctx EXCEPT !._stack_ptr = ptr], w_receiver(h, c), -1, TRUE)}
        ELSE {Outcome([ctx EXCEPT !._stack_ptr = ptr], r, -1, TRUE) :
                 r \in stack_get(ctx, ptr)}

push_no_advance(ctx, w_v) ==
    LET ptr == ctx._stack_ptr
    IN  IF ~InBuffer(ctx, ptr) THEN {Outcome(ctx, Undefined, 0, FALSE)}
        ELSE {Outcome(stack_put(ctx, ptr, w_v), w_nil, 1, TRUE)}
\* push: the pointer is below slot 0 only after a pop of a translated
\* interpreter, where stack_put then writes outside the buffer unchecked
push(ctx, w_v) ==
    LET ptr == ctx._stack_ptr
    IN  IF ptr < 0
        THEN {Outcome(ctx, Undefined, 0, FALSE)}
        ELSE IF ptr >= Len(ctx._temps_and_stack)
        THEN {Outcome(ctx, IndexError, 0, TRUE), Outcome(ctx, Undefined, 0, FALSE)}
        ELSE {Outcome([stack_put(ctx, ptr, w_v) EXCEPT !._stack_ptr = ptr + 1],
                      w_nil, 1, TRUE)}

\* n rounds of the loop of pop_n, for n <= _stack_ptr: each round lowers the
\* pointer and nils the slot
RECURSIVE pop_n_loop(_, _)
pop_n_loop(ctx, n) ==
    IF n = 0 THEN ctx
    ELSE pop_n_loop(stack_put([ctx EXCEPT !._stack_ptr = @ - 1],
                              ctx._stack_ptr - 1, w_nil), n - 1)

\* pop_n: when the pointer reaches 0 first, "assert self._stack_ptr >= 1"
\* raises on Python after the slots below were popped; translated, the loop
\* goes on and writes below the buffer
pop_n(ctx, n) ==
    LET avail == ctx._stack_ptr
    IN  IF n <= 0 THEN {Outcome(ctx, w_nil, 0, TRUE)}
        ELSE IF avail < 0 THEN {Outcome(ctx, Undefined, 0, FALSE)}
        ELSE IF n <= avail THEN {Outcome(pop_n_loop(ctx, n), w_nil, -n, TRUE)}
        ELSE {Outcome(pop_n_loop(ctx, avail), AssertionError, -avail, TRUE),
              Outcome(ctx, Undefined, 0, FALSE)}

\* n pushes of nil, for a pointer that stays inside the buffer
RECURSIVE push_nils(_, _)
push_nils(ctx, n) ==
    IF n = 0 THEN ctx
    ELSE push_nils([stack_put(ctx, ctx._stack_ptr, w_nil) EXCEPT !._stack_ptr = @ + 1],
                   n - 1)

store_stackpointer(ctx, size) ==
    LET depth == stackdepth(ctx)
        room  == Len(ctx._temps_and_stack) - depth
    IN  IF size < depth
        THEN (IF size < 0
              THEN {Outcome(ctx, AssertionError, 0, TRUE), Outcome(ctx, Undefined, 0, FALSE)}
              ELSE pop_n(ctx, depth - size))
        ELSE IF size = depth THEN {Outcome(ctx, w_nil, 0, TRUE)}
        ELSE IF depth < 0 THEN push(ctx, w_nil)
        ELSE IF size - depth <= room
        THEN {Outcome(push_nils(ctx, size - depth), w_nil, size - depth, TRUE)}
        ELSE {Outcome(push_nils(ctx, room), IndexError, room, TRUE),
              Outcome(ctx, Undefined, 0, FALSE)}

peek(ctx, idx) == stack_get(ctx, ctx._stack_ptr - idx - 1)

top(ctx) == peek(ctx, 0)

gettemp_method_context(ctx, index0) == stack_get(ctx, index0)

gettemp(h, c, index) ==
    IF pure_is_block_context(h[c])
    THEN gettemp_method_context(h[s_home(h, c)], index)
    ELSE gettemp_method_context(h[c], index)

\* a settemp that writes the slot after the temporary
settemp_method_context_shifted(h, c, index0, w_value) ==
    [h EXCEPT ![c] = stack_put(h[c], index0 + 1, w_value)]

settemp_method_context(h, c, index0, w_value) ==
    [h EXCEPT ![c] = stack_put(h[c], index0, w_value)]

settemp_block_context_own(h, c, index, w_value) ==
    settemp_method_context(h, c, index, w_value)
settemp_block_context(h, c, index, w_value) ==
    settemp_method_context(h, s_home(h, c), index, w_value)

settemp(h, c, index, w_value) ==
    IF pure_is_block_context(h[c])
    THEN settemp_block_context(h, c, index, w_value)
    ELSE settemp_method_context(h, c, index, w_value)

own_size(ctx) == ctx._w_self_size

RECURSIVE initialize_temps_loop(_, _, _)
initialize_temps_loop(ctx, arguments, i0) ==
    IF i0 >= Len(arguments) THEN ctx
    ELSE initialize_temps_loop(stack_put(ctx, i0, arguments[i0 + 1]), arguments, i0 + 1)

initialize_temps_skip_first(ctx, arguments) ==
    initialize_temps_loop(ctx, arguments, 1)
bytecodeoffset(m) == m.literalsize * BYTES_PER_WORD + BYTES_PER_WORD

\* initialize_temps: the arguments, then for a closure the pc of its start
\* and its captured values after the arguments
initialize_temps(ctx, arguments) ==
    LET argc == Len(arguments)
        args == initialize_temps_loop(ctx, arguments, 0)
        closure == ctx.closure
    IN  IF closure.t = "None" THEN args
        ELSE LET pc == (closure.startpc - bytecodeoffset(ctx._w_method)) - 1
                 copied == [i0 \in 1..BlockClosure_size(closure) |->
                              BlockClosure_at0(closure, i0 - 1)]
             IN  [args EXCEPT
                    !._pc = pc,
                    !._temps_and_stack =
                        [k \in 1..Len(@) |->
                            IF argc < k /\ k <= argc + Len(copied)
                            THEN copied[k - argc] ELSE @[k]]]

\* ContextPartShadow.__init__: w_self is w_None or the pointers object, whose
\* size() is then the size of the context
NewContextPartShadow(w_self, size, is_block_context) ==
    [cls |-> "ContextPartShadow", is_block_context |-> is_block_context,
     _w_self |-> w_self, _w_self_size |-> size,
     _s_sender |-> "None", state |-> "InactiveContext", _pc |-> 0,
     _w_home |-> w_None, _initialip |-> 0, _eargc |-> 0,
     closure |-> w_None, _w_method |-> "None", _w_receiver |-> "None",
     _temps_and_stack |-> <<>>, _stack_ptr |-> 0]

\* an activation that sets the closure after the temporaries are laid out
build_method_context_late_closure(w_method, receiver, arguments, closure) ==
    LET size == compute_frame_size(w_method) + MethodContext_instsize
        ctx  == [NewContextPartShadow(w_None, size, FALSE) EXCEPT
                    !._w_receiver = receiver, !._w_method = w_method]
    IN  initialize_temps([init_temps_and_stack(ctx) EXCEPT !.closure = closure],
                         arguments)

build_method_context(w_method, receiver, arguments, closure) ==
    LET size == compute_frame_size(w_method) + MethodContext_instsize
        ctx  == [NewContextPartShadow(w_None, size, FALSE) EXCEPT
                    !._w_receiver = receiver, !._w_method = w_method,
                    !.closure = closure]
    IN  initialize_temps(init_temps_and_stack(ctx), arguments)

\* create_frame asserts len(arguments) == argsize; the argument lists of the
\* model have that length
create_frame(w_method, receiver, arguments) ==
    build_method_context(w_method, receiver, arguments, w_None)

\* w_self: the pointers object of the context.  A context without one
\* creates a model.W_PointersObject and calls store_strategy on it, which
\* that class does not have: the call raises before _w_self is assigned
w_self(h, c) ==
    IF h[c]._w_self # w_None THEN h[c]._w_self ELSE AttributeError

\* build_block_context: s_home.w_self() raises for a home without pointers
\* object; otherwise the store_strategy call on the new W_PointersObject does
build_block_context(h, home, argcnt, pc) ==
    IF IsFailure(w_self(h, home)) THEN w_self(h, home) ELSE AttributeError

\* w_method: a block context's method is its home's
w_method(h, c) ==
    IF pure_is_block_context(h[c]) THEN h[s_home(h, c)]._w_method ELSE h[c]._w_method

IsMethod(w) == "cls" \in DOMAIN w
IsInt(w) == ~IsMethod(w) /\ w.t = "int"

\* What one operation can do to the contexts: the contexts afterwards, the
\* result, the values pushed minus the values popped on the context operated
\* on, and whether the state of that context is still defined.
HOut(h, result, dn, defined) ==
    [h |-> h, result |-> result, dn |-> dn, defined |-> defined]

\* the outcomes of an operation on context c alone, as outcomes on h
Lift(h, c, outs) ==
    {HOut([h EXCEPT ![c] = o.ctx], o.result, o.dn, o.defined) : o \in outs}

\* store_pc: "assert newpc >= -1" raises on Python; translated, the assert
\* is gone and the value is stored
store_pc(h, c, newpc) ==
    IF newpc >= -1 THEN {HOut([h EXCEPT ![c]._pc = newpc], w_nil, 0, TRUE)}
    ELSE {HOut(h, AssertionError, 0, TRUE),
          HOut([h EXCEPT ![c]._pc = newpc], w_nil, 0, TRUE)}

\* store_unwrap_pc that takes nil for the first bytecode
store_unwrap_pc_nil_as_start(h, c, w_pc) ==
    IF w_pc = w_nil THEN store_pc(h, c, 0)
    ELSE IF ~IsInt(w_pc) THEN {HOut(h, UnwrappingError, 0, TRUE)}
    ELSE store_pc(h, c, (unwrap_int(w_pc) - bytecodeoffset(w_method(h, c))) - 1)

store_unwrap_pc(h, c, w_pc) ==
    IF w_pc = w_nil THEN store_pc(h, c, -1)
    ELSE IF ~IsInt(w_pc) THEN {HOut(h, UnwrappingError, 0, TRUE)}
    ELSE store_pc(h, c, (unwrap_int(w_pc) - bytecodeoffset(w_method(h, c))) - 1)

wrap_pc(h, c) ==
    IF h[c]._pc = -1 THEN w_nil
    ELSE wrap_int(h[c]._pc + 1 + bytecodeoffset(w_method(h, c)))

\* store_s_sender without the test for a different sender
store_s_sender_always(ctx, s_sender) ==
    [ctx EXCEPT !._s_sender = s_sender,
                !.state = IF s_sender # "None" /\ @ = "ActiveContext"
                          THEN "DirtyContext" ELSE @]

\* store_s_sender: only a different sender is stored; a sender other than
\* None makes an active context dirty
store_s_sender(ctx, s_sender) ==
    IF s_sender # ctx._s_sender
    THEN [ctx EXCEPT !._s_sender = s_sender,
                     !.state = IF s_sender # "None" /\ @ = "ActiveContext"
                               THEN "DirtyContext" ELSE @]
    ELSE ctx

w_sender(h, c) ==
    IF h[c]._s_sender = "None" THEN w_nil ELSE w_self(h, h[c]._s_sender)

mark_returned(h, c) ==
    {HOut([o.h EXCEPT ![c] = store_s_sender(@, "None")], o.result, 0, TRUE) :
        o \in store_pc(h, c, -1)}

is_returned(h, c) == h[c]._pc = -1 /\ w_sender(h, c) = w_nil

external_stackpointer(ctx) == stackdepth(ctx) + stackstart(ctx)

unwrap_store_stackpointer(h, c, w_sp1) ==
    IF ~IsInt(w_sp1) THEN {HOut(h, UnwrappingError, 0, TRUE)}
    ELSE Lift(h, c, store_stackpointer(h[c], unwrap_int(w_sp1)))

set_top(ctx, value, position) == stack_put(ctx, (ctx._stack_ptr - position) - 1, value)

\* the store to the sender slot: nil clears the sender and makes an active
\* context dirty, a context's pointers object stores its shadow; anything
\* else fails the isinstance assert
store_sender(h, c, w_value) ==
    IF IsMethod(w_value) \/ w_value.t \notin {"nil", "ctx"}
    THEN {HOut(h, AssertionError, 0, TRUE), HOut(h, Undefined, 0, FALSE)}
    ELSE IF w_value = w_nil
    THEN {HOut([h EXCEPT ![c] =
                  [store_s_sender(h[c], "None") EXCEPT
                      !.state = IF @ = "ActiveContext" THEN "DirtyContext" ELSE @]],
               w_nil, 0, TRUE)}
    ELSE {HOut([h EXCEPT ![c] = store_s_sender(h[c], as_context_get_shadow(h, w_value))],
               w_nil, 0, TRUE)}

\* store_context_part where a store above the stack pointer is kept
store_context_part_kept(h, c, n0, w_value) ==
    LET ctx == h[c]
    IN  CASE n0 = CTXPART_SENDER_INDEX -> store_sender(h, c, w_value)
          [] n0 = CTXPART_PC_INDEX -> store_unwrap_pc(h, c, w_value)
          [] n0 = CTXPART_STACKP_INDEX -> unwrap_store_stackpointer(h, c, w_value)
          [] n0 \notin {CTXPART_SENDER_INDEX, CTXPART_PC_INDEX, CTXPART_STACKP_INDEX}
             /\ stackstart(ctx) <= n0 /\ n0 < external_stackpointer(ctx) ->
                {HOut([h EXCEPT ![c] =
                         set_top(ctx, w_value,
                                 (stackdepth(ctx) - (n0 - stackstart(ctx))) - 1)],
                      w_nil, 0, TRUE)}
          [] n0 \notin {CTXPART_SENDER_INDEX, CTXPART_PC_INDEX, CTXPART_STACKP_INDEX}
             /\ ~(stackstart(ctx) <= n0 /\ n0 < external_stackpointer(ctx))
             /\ external_stackpointer(ctx) <= n0 /\ n0 < stackend(ctx) ->
                {HOut([h EXCEPT ![c] = stack_put(ctx, n0 - stackstart(ctx), w_value)],
                      w_nil, 0, TRUE)}
          [] OTHER -> {HOut(h, WrapperException, 0, TRUE)}

store_context_part(h, c, n0, w_value) ==
    LET ctx == h[c]
    IN  CASE n0 = CTXPART_SENDER_INDEX -> store_sender(h, c, w_value)
          [] n0 = CTXPART_PC_INDEX -> store_unwrap_pc(h, c, w_value)
          [] n0 = CTXPART_STACKP_INDEX -> unwrap_store_stackpointer(h, c, w_value)
          [] n0 \notin {CTXPART_SENDER_INDEX, CTXPART_PC_INDEX, CTXPART_STACKP_INDEX}
             /\ stackstart(ctx) <= n0 /\ n0 < external_stackpointer(ctx) ->
                {HOut([h EXCEPT ![c] =
                         set_top(ctx, w_value,
                                 (stackdepth(ctx) - (n0 - stackstart(ctx))) - 1)],
                      w_nil, 0, TRUE)}
          [] n0 \notin {CTXPART_SENDER_INDEX, CTXPART_PC_INDEX, CTXPART_STACKP_INDEX}
             /\ ~(stackstart(ctx) <= n0 /\ n0 < external_stackpointer(ctx))
             /\ external_stackpointer(ctx) <= n0 /\ n0 < stackend(ctx) ->
                {HOut(h, w_nil, 0, TRUE)}
          [] OTHER -> {HOut(h, WrapperException, 0, TRUE)}

store_w_method(h, c, w) ==
    IF IsMethod(w) THEN {HOut([h EXCEPT ![c]._w_method = w], w_nil, 0, TRUE)}
    ELSE {HOut(h, AssertionError, 0, TRUE), HOut(h, Undefined, 0, FALSE)}

\* the store of the closure slot; only nil is stored in the model
store_closure_or_nil(h, c, w_value) ==
    {HOut([h EXCEPT ![c].closure = w_None], w_nil, 0, TRUE)}

store_method_context(h, c, n0, w_value) ==
    LET temp_i == n0 - MTHDCTX_TEMP_FRAME_START
    IN  CASE n0 = MTHDCTX_METHOD -> store_w_method(h, c, w_value)
          [] n0 = MTHDCTX_CLOSURE_OR_NIL -> store_closure_or_nil(h, c, w_value)
          [] n0 = MTHDCTX_RECEIVER ->
                {HOut([h EXCEPT ![c]._w_receiver = w_value], w_nil, 0, TRUE)}
          [] OTHER ->
                IF 0 <= temp_i /\ temp_i < tempsize(h[c])
                THEN {HOut(settemp(h, c, temp_i, w_value), w_nil, 0, TRUE)}
                ELSE store_context_part(h, c, n0, w_value)

store_w_home(h, c, w_home) ==
    IF IsMethod(w_home) \/ w_home.t \notin {"nil", "ctx"}
    THEN {HOut(h, AssertionError, 0, TRUE), HOut(h, Undefined, 0, FALSE)}
    ELSE {HOut([h EXCEPT ![c]._w_home = w_home], w_nil, 0, TRUE)}

unwrap_store_initialip(h, c, w_value) ==
    IF ~IsInt(w_value) THEN {HOut(h, UnwrappingError, 0, TRUE)}
    ELSE {HOut([h EXCEPT ![c]._initialip =
                   unwrap_int(w_value) - (1 + w_method(h, c).literalsize)],
               w_nil, 0, TRUE)}

unwrap_store_eargc(h, c, w_value) ==
    IF ~IsInt(w_value) THEN {HOut(h, UnwrappingError, 0, TRUE)}
    ELSE {HOut([h EXCEPT ![c]._eargc = unwrap_int(w_value)], w_nil, 0, TRUE)}

store_block_context(h, c, n0, w_value) ==
    CASE n0 = BLKCTX_HOME_INDEX -> store_w_home(h, c, w_value)
      [] n0 = BLKCTX_INITIAL_IP_INDEX -> unwrap_store_initialip(h, c, w_value)
      [] n0 = BLKCTX_BLOCK_ARGUMENT_COUNT_INDEX -> unwrap_store_eargc(h, c, w_value)
      [] OTHER -> store_context_part(h, c, n0, w_value)

\* store(n0, w_value) of context c
store(h, c, n0, w_value) ==
    IF pure_is_block_context(h[c]) THEN store_block_context(h, c, n0, w_value)
    ELSE store_method_context(h, c, n0, w_value)

\* fetch_context_part that fails above the stack pointer
fetch_context_part_strict(h, c, n0) ==
    LET ctx == h[c]
    IN  CASE n0 = CTXPART_SENDER_INDEX -> {w_sender(h, c)}
          [] n0 = CTXPART_PC_INDEX -> {wrap_pc(h, c)}
          [] n0 = CTXPART_STACKP_INDEX -> {wrap_int(stackdepth(ctx))}
          [] n0 \notin {CTXPART_SENDER_INDEX, CTXPART_PC_INDEX, CTXPART_STACKP_INDEX}
             /\ stackstart(ctx) <= n0 /\ n0 < external_stackpointer(ctx) ->
                peek(ctx, (stackdepth(ctx) - (n0 - stackstart(ctx))) - 1)
          [] n0 \notin {CTXPART_SENDER_INDEX, CTXPART_PC_INDEX, CTXPART_STACKP_INDEX}
             /\ ~(stackstart(ctx) <= n0 /\ n0 < external_stackpointer(ctx))
             /\ external_stackpointer(ctx) <= n0 /\ n0 < stackend(ctx) -> {WrapperException}
          [] OTHER -> {WrapperException}

fetch_context_part(h, c, n0) ==
    LET ctx == h[c]
    IN  CASE n0 = CTXPART_SENDER_INDEX -> {w_sender(h, c)}
          [] n0 = CTXPART_PC_INDEX -> {wrap_pc(h, c)}
          [] n0 = CTXPART_STACKP_INDEX -> {wrap_int(stackdepth(ctx))}
          [] n0 \notin {CTXPART_SENDER_INDEX, CTXPART_PC_INDEX, CTXPART_STACKP_INDEX}
             /\ stackstart(ctx) <= n0 /\ n0 < external_stackpointer(ctx) ->
                peek(ctx, (stackdepth(ctx) - (n0 - stackstart(ctx))) - 1)
          [] n0 \notin {CTXPART_SENDER_INDEX, CTXPART_PC_INDEX, CTXPART_STACKP_INDEX}
             /\ ~(stackstart(ctx) <= n0 /\ n0 < external_stackpointer(ctx))
             /\ external_stackpointer(ctx) <= n0 /\ n0 < stackend(ctx) -> {w_nil}
          [] OTHER -> {WrapperException}

fetch_method_context(h, c, n0) ==
    LET temp_i == n0 - MTHDCTX_TEMP_FRAME_START
    IN  CASE n0 = MTHDCTX_METHOD -> {w_method(h, c)}
          [] n0 = MTHDCTX_CLOSURE_OR_NIL -> {w_nil}
          [] n0 = MTHDCTX_RECEIVER -> {w_receiver(h, c)}
          [] OTHER ->
                IF 0 <= temp_i /\ temp_i < tempsize(h[c])
                THEN gettemp(h, c, temp_i)
                ELSE fetch_context_part(h, c, n0)

fetch_block_context(h, c, n0) ==
    CASE n0 = BLKCTX_HOME_INDEX -> {h[c]._w_home}
      [] n0 = BLKCTX_INITIAL_IP_INDEX ->
            {wrap_int(h[c]._initialip + 1 + w_method(h, c).literalsize)}
      [] n0 = BLKCTX_BLOCK_ARGUMENT_COUNT_INDEX -> {wrap_int(h[c]._eargc)}
      [] OTHER -> fetch_context_part(h, c, n0)

\* fetch(n0) of context c: the values the read can give
fetch(h, c, n0) ==
    IF pure_is_block_context(h[c]) THEN fetch_block_context(h, c, n0)
    ELSE fetch_method_context(h, c, n0)

fields_to_convert_first(ctx) ==
    IF pure_is_block_context(ctx) THEN <<BLKCTX_HOME_INDEX>>
    ELSE <<MTHDCTX_METHOD, MTHDCTX_CLOSURE_OR_NIL>>

\* the second loop of _convert_storage_from: every n0 in range(size) that
\* is not a privileged field
fields_to_convert_last(privileged, size) ==
    SelectSeq([i \in 1..size |-> i - 1],
              LAMBDA n0 : \A k \in 1..Len(privileged) : privileged[k] # n0)

\* the stores of _convert_storage_from, in the given order of fields; the
\* pointers objects converted are well-formed contexts, whose stores succeed
RECURSIVE store_fields(_, _, _, _, _)
store_fields(h, c, storage, order, i) ==
    IF i > Len(order) THEN h
    ELSE LET n0 == order[i]
             o  == CHOOSE x \in store(h, c, n0, storage[n0 + 1]) : ~IsFailure(x.result)
         IN  store_fields(o.h, c, storage, order, i + 1)

\* as_context_get_shadow of pointers object w with the fields of storage,
\* which has no context shadow yet: switch_strategy creates the shadow as c
\* and _convert_storage_from stores every field into it
ContextPartShadow_convert(h, c, w, storage, is_block_context) ==
    LET size == Len(storage)
        h0 == [h EXCEPT ![c] = NewContextPartShadow(w, size, is_block_context)]
        privileged == fields_to_convert_first(h0[c])
        h1 == store_fields(h0, c, storage, privileged, 1)
        h2 == [h1 EXCEPT ![c] = init_temps_and_stack(h1[c])]
    IN  store_fields(h2, c, storage, fields_to_convert_last(privileged, size), 1)

\* the fields of a MethodContext object of the image for sample method k
MethodContextObject(k, w_sndr, w_pc, stackp, vals) ==
    LET m == Sample("W_CompiledMethod", k)
    IN  <<w_sndr, w_pc, wrap_int(stackp), m, w_nil, w_obj(1)>>
        \o [i \in 1..compute_frame_size(m) |-> IF i <= Len(vals) THEN vals[i] ELSE w_nil]

\* the fields of a BlockContext object with size slots after the fixed ones
BlockContextObject(w_sndr, w_pc, stackp, argcnt, initialip, w_home, size, vals) ==
    <<w_sndr, w_pc, wrap_int(stackp), wrap_int(argcnt), wrap_int(initialip), w_home>>
    \o [i \in 1..size |-> IF i <= Len(vals) THEN vals[i] ELSE w_nil]

\* the argument lists tried, and the contexts whose stack is operated on
ArgLists ==
    {<<>>, <<wrap_int(3)>>, <<wrap_int(3), wrap_int(4)>>, <<wrap_int(4), wrap_int(3)>>}
StackContexts == {"H"}
PushValues == {wrap_int(7)}
Contexts == {"H", "B"}
Fresh == [n |-> 0, defined |-> TRUE]

Live(c) == heap[c] # NoContext /\ net[c].defined

ContextUnchanged == UNCHANGED <<shadow_w_self, nextVersion, lastStored, seenHash>>

\* the effect of one outcome of an operation on context c
Apply(c, o) ==
    /\ heap' = [heap EXCEPT ![c] = o.ctx]
    /\ net' = [net EXCEPT ![c] = [n |-> @.n + o.dn, defined |-> o.defined]]
    /\ ContextUnchanged

CreateFrame(k, arguments) ==
    /\ heap["H"] = NoContext
    /\ LET m == Sample("W_CompiledMethod", k)
       IN  /\ Len(arguments) = m.argsize
           /\ heap' = [heap EXCEPT !["H"] = create_frame(m, w_obj(1), arguments)]
           /\ hist' = [op |-> "create_frame", ctx |-> "H", w_method |-> m,
                       arguments |-> arguments]
    /\ UNCHANGED net
    /\ ContextUnchanged

\* the closures activated: two captured values and one argument, starting
\* at the first or a later bytecode, and one without captured values
Closures ==
    {BlockClosure(9, 1, <<wrap_int(5), w_obj(2)>>),
     BlockClosure(13, 1, <<wrap_int(5), w_obj(2)>>),
     BlockClosure(9, 0, <<>>)}

\* build_method_context(space, w_method, w_receiver, arguments, closure) as
\* the closure-value primitives call it, with numArgs arguments
BuildMethodContext(k, arguments, closure) ==
    /\ heap["H"] = NoContext
    /\ LET m == Sample("W_CompiledMethod", k)
       IN  /\ Len(arguments) = closure.numArgs
           /\ closure.startpc > bytecodeoffset(m)
           /\ heap' = [heap EXCEPT
                         !["H"] = build_method_context(m, w_obj(1), arguments, closure)]
           /\ hist' = [op |-> "build_method_context", ctx |-> "H", w_method |-> m,
                       arguments |-> arguments, closure |-> closure]
    /\ UNCHANGED net
    /\ ContextUnchanged

BuildBlockContext(argcnt, pc) ==
    /\ uses_block_contexts
    /\ Live("H")
    /\ hist' = [op |-> "build_block_context", ctx |-> "H", argcnt |-> argcnt, pc |-> pc,
                result |-> build_block_context(heap, "H", argcnt, pc)]
    /\ UNCHANGED <<heap, net>>
    /\ ContextUnchanged

\* the pointers object of the image that context c is the shadow of
ContextObject(c) == CASE c = "H" -> w_ctx(1) [] c = "B" -> w_ctx(2)

\* the context objects of the image: a method context of sample method 3
\* with its two arguments, and a block context whose home it is
ContextObjects(h, c, w_sndr, w_pc, depth) ==
    IF c = "H"
    THEN MethodContextObject(3, w_sndr, w_pc, 3 + depth,
                             <<wrap_int(4), wrap_int(3), w_nil, wrap_int(5)>>)
    ELSE BlockContextObject(w_sndr, w_pc, depth, 1, 8, ContextObject("H"),
                            (own_size(h["H"]) - tempsize(h["H"])) - BLKCTX_STACK_START,
                            <<wrap_int(5)>>)

\* as_context_get_shadow of a context object that has no shadow yet; the
\* home of a block context has its shadow already
AsContextGetShadow(c, w_sndr, w_pc, depth) ==
    /\ heap[c] = NoContext
    /\ c = "B" => (Live("H") /\ heap["H"]._w_self = ContextObject("H"))
    /\ w_sndr # w_nil => HasShadow(heap, w_sndr)
    /\ heap' = ContextPartShadow_convert(heap, c, ContextObject(c),
                                         ContextObjects(heap, c, w_sndr, w_pc, depth),
                                         c = "B")
    /\ net' = [net EXCEPT ![c] = [n |-> depth, defined |-> TRUE]]
    /\ hist' = [op |-> "as_context_get_shadow", ctx |-> c, w_pc |-> w_pc,
                w_sender |-> w_sndr, depth |-> depth,
                storage |-> ContextObjects(heap, c, w_sndr, w_pc, depth),
                order |-> fields_to_convert_first(heap'[c])
                          \o fields_to_convert_last(
                                fields_to_convert_first(heap'[c]),
                                Len(ContextObjects(heap, c, w_sndr, w_pc, depth)))]
    /\ ContextUnchanged

Push(c, w_v) ==
    /\ Live(c)
    /\ heap[c]._stack_ptr - tempsize(heap[c]) < MaxDepth
    /\ \E o \in push(heap[c], w_v) :
          /\ Apply(c, o)
          /\ hist' = [op |-> "push", ctx |-> c, w_v |-> w_v, result |-> o.result]

Pop(c) ==
    /\ Live(c)
    /\ heap[c]._stack_ptr - 1 >= -MaxUnderflow
    /\ \E o \in pop(heap, c) :
          /\ Apply(c, o)
          /\ hist' = [op |-> "pop", ctx |-> c, result |-> o.result,
                      fresh |-> hist.op = "create_frame",
                      empty |-> heap[c]._stack_ptr = tempsize(heap[c]),
                      temps |-> SubSeq(heap[c]._temps_and_stack, 1, tempsize(heap[c]))]

PopN(c, n) ==
    /\ Live(c)
    /\ \E o \in pop_n(heap[c], n) :
          /\ Apply(c, o)
          /\ hist' = [op |-> "pop_n", ctx |-> c, n |-> n, result |-> o.result]

StoreStackpointer(c, size) ==
    /\ Live(c)
    /\ size - tempsize(heap[c]) <= MaxDepth
    /\ \E o \in store_stackpointer(heap[c], size) :
          /\ Apply(c, o)
          /\ hist' = [op |-> "store_stackpointer", ctx |-> c, size |-> size,
                      result |-> o.result]

Settemp(c, index, w_value) ==
    /\ Live(c)
    /\ Live(s_home(heap, c))
    /\ heap' = settemp(heap, c, index, w_value)
    /\ hist' = [op |-> "settemp", ctx |-> c, index |-> index, w_value |-> w_value]
    /\ UNCHANGED net
    /\ ContextUnchanged

InitContext ==
    /\ heap = [c \in Contexts |-> NoContext]
    /\ net = [c \in Contexts |-> Fresh]
    /\ shadow_w_self = NoShadows
    /\ nextVersion = 0
    /\ lastStored = [o \in {} |-> <<>>]
    /\ seenHash = [o \in {} |-> NotSeen]
    /\ hist = NoHist

NextContext ==
    \/ \E k \in 1..3, arguments \in ArgLists : CreateFrame(k, arguments)
    \/ \E k \in 1..3, arguments \in ArgLists, closure \in Closures :
          BuildMethodContext(k, arguments, closure)
    \/ \E argcnt \in 0..1 : BuildBlockContext(argcnt, 5)
    \/ \E c \in Contexts : AsContextGetShadow(c, w_nil, wrap_int(18), 0)
    \/ \E c \in StackContexts, w_v \in PushValues : Push(c, w_v)
    \/ \E c \in StackContexts : Pop(c)
    \/ \E c \in StackContexts, n \in 0..MaxPop : PopN(c, n)
    \/ \E c \in StackContexts, size \in (-1)..(MaxTemp + 1 + MaxDepth) :
          StoreStackpointer(c, size)
    \/ \E c \in Contexts, index \in 0..MaxTemp, w_value \in PushValues :
          Settemp(c, index, w_value)

SpecContext == InitContext /\ [][NextContext]_vars

(***************************************************************************)
(* The life of a context: its pointers object, sender, pc and state, and   *)
(* the stores and fetches by index                                         *)
(***************************************************************************)
\* the indices stored at: sender, pc, stack pointer, the first temporary of
\* "H" (first stack slot of "B"), the first stack slot of "H", and
\* MaxFrameIndex, which is beyond every context of the model
MaxFrameIndex == 30
FrameIndices ==
    {CTXPART_SENDER_INDEX, CTXPART_PC_INDEX, CTXPART_STACKP_INDEX,
     MTHDCTX_TEMP_FRAME_START, MTHDCTX_TEMP_FRAME_START + 2,
     MTHDCTX_TEMP_FRAME_START + 3, MaxFrameIndex}

\* the values stored at an index
FrameValues(n0) ==
    CASE n0 = CTXPART_SENDER_INDEX -> {w_nil, ContextObject("H"), ContextObject("B")}
      [] n0 = CTXPART_PC_INDEX ->
           {w_nil, wrap_int(18)}
              \cup {wrap_int(bytecodeoffset(Sample("W_CompiledMethod", k))) : k \in 2..3}
      [] n0 = CTXPART_STACKP_INDEX -> {wrap_int(2), wrap_int(3), wrap_int(4)}
      [] OTHER -> {wrap_int(7)}

\* the context whose sender, pc, stack pointer and state change in a run
LifeContexts == {"H"}

\* the effect of one outcome of an operation on the contexts
ApplyH(c, o) ==
    /\ heap' = o.h
    /\ net' = [net EXCEPT ![c] = [n |-> @.n + o.dn, defined |-> o.defined]]
    /\ ContextUnchanged

W_self(c) ==
    /\ Live(c)
    /\ hist' = [op |-> "w_self", ctx |-> c, result |-> w_self(heap, c)]
    /\ UNCHANGED <<heap, net>>
    /\ ContextUnchanged

MarkReturned(c) ==
    /\ Live(c)
    /\ \E o \in mark_returned(heap, c) :
          /\ ApplyH(c, o)
          /\ hist' = [op |-> "mark_returned", ctx |-> c, result |-> o.result]

\* store(n0, w_value) on context c, as reached through its pointers object
\* or from the primitives
StoreIndexed(c, n0, w_value) ==
    /\ Live(c)
    /\ pure_is_block_context(heap[c]) => Live(s_home(heap, c))
    /\ (n0 = CTXPART_SENDER_INDEX /\ w_value # w_nil) => HasShadow(heap, w_value)
    /\ \E o \in store(heap, c, n0, w_value) :
          /\ ApplyH(c, o)
          /\ hist' = [op |-> "ctx_store", ctx |-> c, index |-> n0, value |-> w_value,
                      result |-> o.result,
                      was_returned |-> is_returned(heap, c),
                      state |-> heap[c].state, s_sender |-> heap[c]._s_sender]

S_home(c) ==
    /\ Live(c)
    /\ hist' = [op |-> "s_home", ctx |-> c, result |-> s_home(heap, c)]
    /\ UNCHANGED <<heap, net>>
    /\ ContextUnchanged

\* fetch(n0) on context c, as reached through its pointers object
FetchIndexed(c, n0) ==
    /\ Live(c)
    /\ pure_is_block_context(heap[c]) => Live(s_home(heap, c))
    /\ \E w \in fetch(heap, c, n0) :
          hist' = [op |-> "ctx_fetch", ctx |-> c, index |-> n0, result |-> w]
    /\ UNCHANGED <<heap, net>>
    /\ ContextUnchanged

\* the interpreter entering the context
Activate(c) ==
    /\ Live(c)
    /\ heap[c].state = "InactiveContext"
    /\ heap' = [heap EXCEPT ![c].state = "ActiveContext"]
    /\ hist' = [op |-> "activate", ctx |-> c]
    /\ UNCHANGED net
    /\ ContextUnchanged

NextLifecycle ==
    \/ CreateFrame(3, <<wrap_int(4), wrap_int(3)>>)
    \/ \E c \in Contexts, w_pc \in {w_nil, wrap_int(18)}, depth \in 0..1 :
          AsContextGetShadow(c, w_nil, w_pc, IF c = "H" THEN 0 ELSE depth)
    \/ \E c \in Contexts : W_self(c)
    \/ \E c \in LifeContexts : MarkReturned(c)
    \/ \E c \in Contexts, n0 \in FrameIndices : \E w_value \in FrameValues(n0) :
          /\ c \notin LifeContexts => n0 >= MTHDCTX_TEMP_FRAME_START
          /\ StoreIndexed(c, n0, w_value)
    \/ \E c \in Contexts : S_home(c)
    \/ \E c \in LifeContexts : Activate(c)
    \/ \E c \in Contexts, n0 \in FrameIndices : FetchIndexed(c, n0)

SpecLifecycle == InitContext /\ [][NextLifecycle]_vars

(***************************************************************************)
(* Compiled methods (model.py): header word, literals, bytecodes, indexed  *)
(* by byte                                                                 *)
(***************************************************************************)
PrimitiveFailedError == [raise |-> "PrimitiveFailedError"]

CM_size(m) == BYTES_PER_WORD + m.literalsize * BYTES_PER_WORD + Len(m.bytes)

literalat0(m, index0) ==
    IF index0 = 0 THEN wrap_int(m.header) ELSE m.literals[(index0 - 1) + 1]

\* at0 that takes two words for one
CM_at0_wide(m, index0) ==
    IF index0 < bytecodeoffset(m)
    THEN {literalat0(m, index0 \div (BYTES_PER_WORD * 2))}
    ELSE IF index0 - bytecodeoffset(m) >= Len(m.bytes)
    THEN {AssertionError, Undefined}
    ELSE {wrap_int(m.bytes[(index0 - bytecodeoffset(m)) + 1])}

\* at0: below the bytecodes the word the index lies in; the assert on the
\* bytecode index is checked on Python only
CM_at0(m, index0) ==
    IF index0 < bytecodeoffset(m)
    THEN {literalat0(m, index0 \div BYTES_PER_WORD)}
    ELSE IF index0 - bytecodeoffset(m) >= Len(m.bytes)
    THEN {AssertionError, Undefined}
    ELSE {wrap_int(m.bytes[(index0 - bytecodeoffset(m)) + 1])}

\* setliteral: the assignment needs index < len(literals), so the test
\* index == len(literals) that clears compiledin_class is never true
setliteral(m, index, w_lit, nv) ==
    [m EXCEPT !.literals[index + 1] = w_lit,
              !.compiledin_class = IF index = Len(m.literals) THEN "None" ELSE @,
              !.version = nv]

\* literals that name a class: the class itself, or an association whose
\* value is the class
ClassNames == <<"ClassA", "ClassB">>
w_class_lit(k) == [t |-> "class", v |-> k]
w_assoc(k) == [t |-> "assoc", v |-> k]

\* update_compiledin_class_from_literals: the last literal, if it is a
\* class or an association of at least two slots whose value is a class
update_compiledin_class_from_literals(m, nv) ==
    LET literals == m.literals
    IN  IF Len(literals) > 0 /\ literals[Len(literals)].t \in {"class", "assoc"}
        THEN [m EXCEPT !.compiledin_class = ClassNames[literals[Len(literals)].v],
                       !.version = nv]
        ELSE m

\* compiled_in: the lookup class, else the cached compiledin_class, else
\* the class found in the literals; gives the method afterwards and the result
compiled_in(m, nv) ==
    IF m.lookup_class # "None" THEN [m |-> m, result |-> m.lookup_class]
    ELSE IF m.compiledin_class # "None" THEN [m |-> m, result |-> m.compiledin_class]
    ELSE LET m1 == update_compiledin_class_from_literals(m, nv)
         IN  [m |-> m1, result |-> m1.compiledin_class]

CM_setchar(m, index0, character, nv) ==
    [m EXCEPT !.bytes[index0 + 1] = character, !.version = nv]

\* atput0 without the test for an aligned index
CM_atput0_unaligned(m, index0, w_value, nv) ==
    IF index0 < bytecodeoffset(m)
    THEN (IF FALSE THEN {PrimitiveFailedError}
          ELSE {setliteral(m, (index0 \div BYTES_PER_WORD) - 1, w_value, nv)})
    ELSE IF index0 - bytecodeoffset(m) >= Len(m.bytes)
    THEN {AssertionError, Undefined}
    ELSE IF ~IsInt(w_value) THEN {UnwrappingError}
    ELSE {CM_setchar(m, index0 - bytecodeoffset(m), unwrap_int(w_value), nv)}

\* atput0 for index0 > 0
CM_atput0(m, index0, w_value, nv) ==
    IF index0 < bytecodeoffset(m)
    THEN (IF index0 % BYTES_PER_WORD # 0 THEN {PrimitiveFailedError}
          ELSE {setliteral(m, (index0 \div BYTES_PER_WORD) - 1, w_value, nv)})
    ELSE IF index0 - bytecodeoffset(m) >= Len(m.bytes)
    THEN {AssertionError, Undefined}
    ELSE IF ~IsInt(w_value) THEN {UnwrappingError}
    ELSE {CM_setchar(m, index0 - bytecodeoffset(m), unwrap_int(w_value), nv)}

MaxMethodIndex == 13          \* indices 0..MaxMethodIndex are tried
MethodValues == {wrap_int(0), wrap_int(65), w_nil, w_class_lit(2)}

MethodAt0(o, index0) ==
    /\ \E r \in CM_at0(heap[o], index0) :
          hist' = [op |-> "m_at0", obj |-> o, index |-> index0, result |-> r]
    /\ UNCHANGED <<heap, nextVersion>>
    /\ IndexedUnchanged

\* (bound: index 0 is not stored into; the header is decoded outside
\* model.py)
MethodAtput0(o, index0, w_value) ==
    /\ index0 > 0
    /\ nextVersion < MaxVersion
    /\ \E r \in CM_atput0(heap[o], index0, w_value, nextVersion) :
          /\ heap' = IF IsFailure(r) THEN heap ELSE [heap EXCEPT ![o] = r]
          /\ nextVersion' = IF IsFailure(r) THEN nextVersion ELSE nextVersion + 1
          /\ hist' = [op |-> "m_atput0", obj |-> o, index |-> index0, value |-> w_value,
                      result |-> IF IsFailure(r) THEN r ELSE w_nil]
    /\ IndexedUnchanged

CompiledIn(o) ==
    /\ nextVersion < MaxVersion
    /\ LET r == compiled_in(heap[o], nextVersion)
       IN  /\ heap' = [heap EXCEPT ![o] = r.m]
           /\ nextVersion' = IF r.m = heap[o] THEN nextVersion ELSE nextVersion + 1
           /\ hist' = [op |-> "compiled_in", obj |-> o, result |-> r.result]
    /\ IndexedUnchanged

\* a sample method as it is after set_lookup_class_and_name, or a method
\* without lookup class whose last literal may name a class
InitMethod ==
    /\ \E k \in 1..3, last \in {w_nil, w_class_lit(1), w_assoc(1)}, named \in BOOLEAN :
          LET m == Sample("W_CompiledMethod", k)
          IN  heap = [o \in {"a"} |->
                        IF named \/ m.literalsize = 0 THEN m
                        ELSE [m EXCEPT !.lookup_class = "None",
                                       !.compiledin_class = "None",
                                       !.literals[m.literalsize] = last]]
    /\ shadow_w_self = NoShadows
    /\ nextVersion = 0
    /\ lastStored = [o \in {} |-> <<>>]
    /\ net = NoContexts
    /\ seenHash = [o \in {"a"} |-> NotSeen]
    /\ hist = NoHist

NextMethod ==
    \/ \E o \in DOMAIN heap, index0 \in 0..MaxMethodIndex : MethodAt0(o, index0)
    \/ \E o \in DOMAIN heap, index0 \in 0..MaxMethodIndex, w_value \in MethodValues :
          MethodAtput0(o, index0, w_value)
    \/ \E o \in DOMAIN heap : CompiledIn(o)

SpecMethod == InitMethod /\ [][NextMethod]_vars

(***************************************************************************)
(* Bit shifts of W_SmallInteger and W_LargePositiveInteger1Word (model.py) *)
(* on 32-bit machine integers.  A large integer keeps its unsigned word as *)
(* the signed integer of the same bits.                                    *)
(***************************************************************************)
LONG_BIT == 32                \* the primitive passes shifts below LONG_BIT

\* intmask(x << 1)
int_lshift1(x) ==
    IF x >= 2 ^ 30 THEN (((x - 2 ^ 30) * 2) - MAXINT) - 1
    ELSE IF x < -(2 ^ 30) THEN (((x + 2 ^ 30) * 2) + MAXINT) + 1
    ELSE x * 2

\* intmask(x << shift)
RECURSIVE int_lshift(_, _)
int_lshift(x, shift) ==
    IF shift = 0 THEN x ELSE int_lshift(int_lshift1(x), shift - 1)

\* intmask(r_uint(-1) >> shift) for 0 < shift < LONG_BIT
upperbound(shift) == ((2 ^ (31 - shift) - 1) * 2) + 1

\* x & mask for the mask of the low bits 0..bits-1, 0 < bits < LONG_BIT
and_low_bits(x, bits) ==
    IF bits = 31 THEN (IF x >= 0 THEN x ELSE (x + 2 ^ 30) + 2 ^ 30)
    ELSE x % (2 ^ bits)

W_SmallInteger(value) == [cls |-> "W_SmallInteger", value |-> value]

W_LargePositiveInteger1Word(value) ==
    [cls |-> "W_LargePositiveInteger1Word", hash |-> UNASSIGNED_HASH,
     value |-> value, _exposed_size |-> 4]

\* objspace: a small integer when the word is not negative as a signed
\* integer, a large positive integer of the same bits otherwise
wrap_positive_32bit_int(val) ==
    IF 0 <= val THEN wrap_int(val) ELSE W_LargePositiveInteger1Word(val)

\* lshift of a small integer that takes every product for a word
SmallInteger_lshift_unchecked(o, shift) ==
    IF 0 <= o.value
    THEN wrap_positive_32bit_int(int_lshift(o.value, shift))
    ELSE IF -(2 ^ (31 - shift)) <= o.value /\ o.value <= 2 ^ (31 - shift) - 1
    THEN wrap_int(int_lshift(o.value, shift))
    ELSE PrimitiveFailedError

\* ovfcheck(value << shift): OverflowError unless the product is a signed
\* 32-bit integer
SmallInteger_lshift(o, shift) ==
    IF 0 <= o.value /\ o.value <= upperbound(shift)
    THEN wrap_positive_32bit_int(int_lshift(o.value, shift))
    ELSE IF -(2 ^ (31 - shift)) <= o.value /\ o.value <= 2 ^ (31 - shift) - 1
    THEN wrap_int(int_lshift(o.value, shift))
    ELSE PrimitiveFailedError

SmallInteger_rshift(o, shift) == wrap_int(asr(o.value, shift))

LPI_lshift(o, shift) ==
    IF 0 <= o.value /\ o.value <= upperbound(shift)
    THEN wrap_positive_32bit_int(int_lshift(o.value, shift))
    ELSE PrimitiveFailedError

\* rshift of a large integer without the mask
LPI_rshift_signed(o, shift) ==
    IF shift = 0 THEN o
    ELSE wrap_int(asr(o.value, shift))

LPI_rshift(o, shift) ==
    IF shift = 0 THEN o
    ELSE wrap_int(and_low_bits(asr(o.value, shift), 32 - shift))

\* the receivers: small integers and the words of large integers
ShiftValues ==
    {0, 1, 3, 258, 2 ^ 30 - 1, 2 ^ 30, MAXINT, -1, -3, -(2 ^ 30), -(2 ^ 30) - 1, -MAXINT - 1}

Lshift(o, shift) ==
    /\ hist' = [op |-> "lshift", obj |-> o, shift |-> shift,
                result |-> IF heap[o].cls = "W_SmallInteger"
                           THEN SmallInteger_lshift(heap[o], shift)
                           ELSE LPI_lshift(heap[o], shift)]
    /\ UNCHANGED <<heap, nextVersion>>
    /\ IndexedUnchanged

Rshift(o, shift) ==
    /\ hist' = [op |-> "rshift", obj |-> o, shift |-> shift,
                result |-> IF heap[o].cls = "W_SmallInteger"
                           THEN SmallInteger_rshift(heap[o], shift)
                           ELSE LPI_rshift(heap[o], shift)]
    /\ UNCHANGED <<heap, nextVersion>>
    /\ IndexedUnchanged

InitShift ==
    /\ \E value \in ShiftValues :
          \E w \in {W_SmallInteger(value), W_LargePositiveInteger1Word(value)} :
             heap = [o \in {"a"} |-> w]
    /\ shadow_w_self = NoShadows
    /\ nextVersion = 0
    /\ lastStored = [o \in {} |-> <<>>]
    /\ net = NoContexts
    /\ seenHash = [o \in {"a"} |-> NotSeen]
    /\ hist = NoHist

NextShift ==
    \/ \E o \in DOMAIN heap, shift \in 1..(LONG_BIT - 1) : Lshift(o, shift)
    \/ \E o \in DOMAIN heap, shift \in 0..(LONG_BIT - 1) : Rshift(o, shift)

SpecShift == InitShift /\ [][NextShift]_vars

(***************************************************************************)
(* Weak lists and fixed size (storage.py): ListEntry, WeakListStrategy,    *)
(* AbstractStrategy.insert / delete.                                       *)
(* A list entry is a record of its kind (strong), the value it was built   *)
(* for (content) and whether the referent of its weak reference has been   *)
(* collected (dead).                                                       *)
(***************************************************************************)
MaxWeakSize == 3      \* slots a weak object grows to by insert

NotImplementedError == [raise |-> "NotImplementedError"]
w_bytes(k) == [t |-> "bytes", v |-> k]

StrongListEntry(value) == [strong |-> TRUE, content |-> value, dead |-> FALSE]
WeakListEntry(value) == [strong |-> FALSE, content |-> value, dead |-> FALSE]

\* instance variables, SmallIntegers and bytes objects are held strongly
is_strong_anyway(value, is_instvar) ==
    is_instvar \/ value.t = "int" \/ value.t = "bytes"

ListEntry_build(value, is_instvar) ==
    IF is_strong_anyway(value, is_instvar)
    THEN StrongListEntry(value)
    ELSE WeakListEntry(value)

\* StrongListEntry.get / WeakListEntry.get: a dead weak reference gives None
ListEntry_get(e) ==
    IF e.strong THEN e.content
    ELSE IF e.dead THEN w_None ELSE e.content

\* WeakListStrategy._wrap: value.get() or self.default_value()
Weak_wrap(e) ==
    IF ListEntry_get(e) = w_None THEN w_nil ELSE ListEntry_get(e)

\* WeakListStrategy._unwrap(value, index, w_self)
Weak_unwrap(value, index, o) == ListEntry_build(value, index < o.instsize)

Weak_initialize_storage(initial_size) ==
    [k \in 1..initial_size |-> StrongListEntry(w_nil)]

\* W_GenericPointersObject(space, w_class, size, weak=True); instsize is
\* the instance size of the object's class
NewWeakPointersObject(w_class, size, instsize) ==
    [cls |-> "W_GenericPointersObject", hash |-> MAXINT, w_class |-> w_class,
     strategy |-> "WeakListStrategy", _storage |-> Weak_initialize_storage(size),
     instsize |-> instsize]

Weak_fetch(o, n0) == Weak_wrap(o._storage[n0 + 1])

\* WeakListStrategy.store: every value can be handled
Weak_store(o, index0, wrapped_value) ==
    [o EXCEPT !._storage[index0 + 1] = Weak_unwrap(wrapped_value, index0, o)]

PyMin(a, b) == IF a < b THEN a ELSE b

\* WeakListStrategy.insert: the values are inserted one by one at
\* start + i, start lowered to the size
Weak_insert(o, start, list_w) ==
    LET st == o._storage
        at == PyMin(start, Len(st))
        added == [i \in 1..Len(list_w) |-> Weak_unwrap(list_w[i], at + i - 1, o)]
    IN  [o EXCEPT !._storage =
            SubSeq(st, 1, at) \o added \o SubSeq(st, at + 1, Len(st))]

\* WeakListStrategy.delete: del storage[start : end] for start, end >= 0
Weak_delete(o, start, end) ==
    LET st == o._storage
        lo == PyMin(start, Len(st))
        hi == PyMin(end, Len(st))
    IN  IF lo >= hi THEN o
        ELSE [o EXCEPT !._storage = SubSeq(st, 1, lo) \o SubSeq(st, hi + 1, Len(st))]

\* the list strategy keeps the wrapped values themselves
List_insert(o, start, list_w) ==
    LET st == o._storage
        at == PyMin(start, Len(st))
    IN  [o EXCEPT !._storage = SubSeq(st, 1, at) \o list_w \o SubSeq(st, at + 1, Len(st))]

List_delete(o, start, end) ==
    LET st == o._storage
        lo == PyMin(start, Len(st))
        hi == PyMin(end, Len(st))
    IN  IF lo >= hi THEN o
        ELSE [o EXCEPT !._storage = SubSeq(st, 1, lo) \o SubSeq(st, hi + 1, Len(st))]

\* the strategy of an object or of a context shadow
strategy_of(o) ==
    IF o.cls = "ContextPartShadow" THEN "ContextPartShadow" ELSE o.strategy

\* an insert that every singleton strategy performs as the list strategy does
insert_anywhere(o, index0, list_w) ==
    CASE strategy_of(o) = "WeakListStrategy" -> Weak_insert(o, index0, list_w)
      [] strategy_of(o) = "ListStrategy" -> List_insert(o, index0, list_w)
      [] strategy_of(o) = "ContextPartShadow" -> NotImplementedError
      [] OTHER -> [o EXCEPT !.strategy = "ListStrategy",
                            !._storage = [k \in 1..GPO_size(o) |-> GPO_fetch(o, k - 1)]
                                            \o list_w]

\* insert / delete of the strategy of o: "Smalltalk objects are fixed size"
\* unless the strategy is a list
insert(o, index0, list_w) ==
    CASE strategy_of(o) = "WeakListStrategy" -> Weak_insert(o, index0, list_w)
      [] strategy_of(o) = "ListStrategy" -> List_insert(o, index0, list_w)
      [] OTHER -> NotImplementedError

delete(o, start, end) ==
    CASE strategy_of(o) = "WeakListStrategy" -> Weak_delete(o, start, end)
      [] strategy_of(o) = "ListStrategy" -> List_delete(o, start, end)
      [] OTHER -> NotImplementedError

\* size / fetch / store of an object under any of the strategies
W_size_any(o) ==
    CASE strategy_of(o) = "WeakListStrategy" -> Len(o._storage)
      [] strategy_of(o) = "ContextPartShadow" -> own_size(o)
      [] OTHER -> GPO_size(o)

W_fetch_any(o, n0) ==
    IF strategy_of(o) = "WeakListStrategy" THEN Weak_fetch(o, n0) ELSE GPO_fetch(o, n0)

W_store_any(o, n0, w) ==
    IF strategy_of(o) = "WeakListStrategy" THEN Weak_store(o, n0, w) ELSE GPO_store(o, n0, w)

WeakValues == {w_nil, wrap_int(3), wrap_float(1), w_obj(1), w_bytes(1)}
WeakLists == {<<w_obj(1)>>, <<wrap_int(3), wrap_float(1)>>}
Slotted == {"g", "w"}

\* value v is held strongly by an entry of the weak object
StronglyHeld(v) ==
    \E k \in 1..Len(heap["w"]._storage) :
        heap["w"]._storage[k].strong /\ heap["w"]._storage[k].content = v

\* value v has been collected: a weak entry for it is dead
Collected(v) ==
    /\ heap["w"] # NoObject
    /\ \E k \in 1..Len(heap["w"]._storage) :
          heap["w"]._storage[k].dead /\ heap["w"]._storage[k].content = v

WeakUnchanged == UNCHANGED <<shadow_w_self, nextVersion, net, seenHash>>

\* one object per run: a fresh list object, a fresh weak object or a frame
InitWeak ==
    /\ \E subject \in {"g", "w", "H"}, size \in 1..2, instsize \in 0..1 :
          heap = [o \in {"g", "w", "H"} |->
                    CASE o # subject -> NoObject
                      [] o = "g" -> NewGenericPointersObject("Array", size, FALSE)
                      [] o = "w" -> NewWeakPointersObject("WeakArray", size, instsize)
                      [] o = "H" -> create_frame(Sample("W_CompiledMethod", 1),
                                                 w_obj(1), <<wrap_int(3)>>)]
    /\ lastStored = [o \in Slotted |->
                       IF heap[o] = NoObject THEN <<>>
                       ELSE [k \in 1..W_size_any(heap[o]) |-> w_nil]]
    /\ net = NoContexts
    /\ shadow_w_self = NoShadows
    /\ nextVersion = 0
    /\ seenHash = [o \in Slotted |-> NotSeen]
    /\ hist = NoHist

\* w_self.store(space, n0, w) on the list object or the weak object; the
\* program holds no reference to a collected value
WStore(o, n0, w) ==
    /\ heap[o] # NoObject
    /\ ~Collected(w)
    /\ heap' = [heap EXCEPT ![o] = W_store_any(heap[o], n0, w)]
    /\ lastStored' = [lastStored EXCEPT ![o][n0 + 1] = w]
    /\ hist' = [op |-> "store", obj |-> o, n0 |-> n0, w |-> w,
                before |-> heap[o].strategy]
    /\ WeakUnchanged

\* strategy.insert(w_self, index0, list_w)
Insert(o, index0, list_w) ==
    /\ heap[o] # NoObject
    /\ \A i \in 1..Len(list_w) : ~Collected(list_w[i])
    /\ LET r == insert(heap[o], index0, list_w)
       IN  /\ ~IsFailure(r) => W_size_any(r) <= MaxWeakSize
           /\ heap' = IF IsFailure(r) THEN heap ELSE [heap EXCEPT ![o] = r]
           /\ lastStored' =
                 IF IsFailure(r) THEN lastStored
                 ELSE LET ls == lastStored[o]
                          at == PyMin(index0, Len(ls))
                      IN  [lastStored EXCEPT ![o] =
                              SubSeq(ls, 1, at) \o list_w \o SubSeq(ls, at + 1, Len(ls))]
           /\ hist' = [op |-> "insert", obj |-> o, start |-> index0, list_w |-> list_w,
                       before |-> strategy_of(heap[o]),
                       result |-> IF IsFailure(r) THEN r ELSE w_nil]
    /\ WeakUnchanged

\* strategy.delete(w_self, start, end)
Delete(o, start, end) ==
    /\ heap[o] # NoObject
    /\ LET r == delete(heap[o], start, end)
       IN  /\ heap' = IF IsFailure(r) THEN heap ELSE [heap EXCEPT ![o] = r]
           /\ lastStored' =
                 IF IsFailure(r) THEN lastStored
                 ELSE LET ls == lastStored[o]
                          lo == PyMin(start, Len(ls))
                          hi == PyMin(end, Len(ls))
                      IN  IF lo >= hi THEN lastStored
                          ELSE [lastStored EXCEPT ![o] =
                                  SubSeq(ls, 1, lo) \o SubSeq(ls, hi + 1, Len(ls))]
           /\ hist' = [op |-> "delete", obj |-> o, start |-> start, end |-> end,
                       before |-> strategy_of(heap[o]),
                       result |-> IF IsFailure(r) THEN r ELSE w_nil]
    /\ WeakUnchanged

\* the collector: a value no strong reference holds is collected, and every
\* weak reference to it dies
Collect(v) ==
    /\ heap["w"] # NoObject
    /\ v.t \in {"float", "obj"}
    /\ ~StronglyHeld(v)
    /\ \E k \in 1..Len(heap["w"]._storage) :
          /\ ~heap["w"]._storage[k].strong
          /\ ~heap["w"]._storage[k].dead
          /\ heap["w"]._storage[k].content = v
    /\ heap' = [heap EXCEPT !["w"]._storage =
                  [k \in 1..Len(@) |->
                      IF ~@[k].strong /\ @[k].content = v
                      THEN [@[k] EXCEPT !.dead = TRUE] ELSE @[k]]]
    /\ hist' = [op |-> "collect", v |-> v]
    /\ UNCHANGED lastStored
    /\ WeakUnchanged

NextWeak ==
    \/ \E o \in Slotted, w \in WeakValues, n0 \in 0..(MaxWeakSize - 1) :
          n0 < Len(lastStored[o]) /\ WStore(o, n0, w)
    \/ \E o \in {"g", "w", "H"}, index0 \in 0..MaxWeakSize, list_w \in WeakLists :
          Insert(o, index0, list_w)
    \/ \E o \in {"g", "w", "H"}, start \in 0..MaxWeakSize, end \in 0..MaxWeakSize :
          Delete(o, start, end)
    \/ \E v \in WeakValues : Collect(v)

SpecWeak == InitWeak /\ [][NextWeak]_vars

(***************************************************************************)
(* 16-bit access to bytes and words objects (model.py): short_at0 and      *)
(* short_atput0, on the 32-bit build                                       *)
(***************************************************************************)
MaxShortIndex == 3            \* half-word indices 0..MaxShortIndex are tried

\* word & 0xffff and (word >> 16) & 0xffff of an unsigned word, and the word
\* of two half-words
Low16(w) == w.lo % 65536
High16(w) == w.hi * 32768 + w.lo \div 65536
Word16(high, low) == [hi |-> high \div 32768, lo |-> (high % 32768) * 65536 + low]

\* "if short & 0x8000 != 0: short = r_uint(0xffff0000) | r_uint(short)",
\* then intmask, for 0 <= short <= 0xffff
sign_extend(short) ==
    IF (short \div 32768) % 2 # 0 THEN intmask(Word16(65535, short)) ELSE short

\* rarithmetic.int_between(a, x, c): a <= x < c
int_between(a, x, c) == a <= x /\ x < c

\* W_BytesObject.short_at0: the byte at 2 * index0 is the low byte, the one
\* after it the high byte, whose top bit is the sign
Bytes_short_at0(o, index0) ==
    LET byte_index0 == index0 * 2
    IN  UNION {IF IsFailure(c0) THEN {c0}
               ELSE {IF IsFailure(c1) THEN c1
                     ELSE wrap_int(sign_extend(unwrap_int(c1) * 256) + unwrap_int(c0)) :
                        c1 \in Bytes_getchar(o, byte_index0 + 1)} :
                 c0 \in Bytes_getchar(o, byte_index0)}

\* W_BytesObject.short_atput0: the range test, then two setchar, each with
\* its own mutate(); gives the object afterwards and the result
Bytes_short_atput0(o, index0, w_value, nv) ==
    IF ~IsInt(w_value) THEN {[obj |-> o, result |-> UnwrappingError]}
    ELSE LET i_value == unwrap_int(w_value)
             byte_index0 == index0 * 2
             byte0 == i_value % 256
             byte1 == (i_value % 65536) \div 256
         IN  IF ~int_between(-32768, i_value, 32768)
             THEN {[obj |-> o, result |-> PrimitiveFailedError]}
             ELSE UNION {IF IsFailure(o1) THEN {[obj |-> o, result |-> o1]}
                         ELSE {IF IsFailure(o2) THEN [obj |-> o1, result |-> o2]
                               ELSE [obj |-> o2, result |-> w_nil] :
                                  o2 \in Bytes_setchar(o1, byte_index0 + 1, byte1, nv + 1)} :
                            o1 \in Bytes_setchar(o, byte_index0, byte0, nv)}

\* W_WordsObject.short_at0: the low half of word index0 / 2 for an even
\* index, the high half for an odd one, sign-extended
Words_short_at0(o, index0) ==
    {IF IsFailure(word) THEN word
     ELSE wrap_int(sign_extend(IF index0 % 2 = 0 THEN Low16(word) ELSE High16(word))) :
        word \in Words_getword(o, index0 \div 2)}

\* a short_atput0 that clears the low half when it stores the high half
Words_short_atput0_clobber(o, index0, w_value) ==
    IF ~IsInt(w_value) THEN {[obj |-> o, result |-> UnwrappingError]}
    ELSE LET i_value == unwrap_int(w_value)
             word_index0 == index0 \div 2
         IN  IF ~int_between(-32768, i_value, 32768)
             THEN {[obj |-> o, result |-> PrimitiveFailedError]}
             ELSE UNION {IF IsFailure(word) THEN {[obj |-> o, result |-> word]}
                         ELSE LET value == IF index0 % 2 = 0
                                           THEN Word16(High16(word), i_value % 65536)
                                           ELSE Word16(i_value % 65536, 0)
                              IN  {IF IsFailure(o1) THEN [obj |-> o, result |-> o1]
                                   ELSE [obj |-> o1, result |-> w_nil] :
                                      o1 \in Words_setword(o, word_index0, value)} :
                            word \in Words_getword(o, word_index0)}

\* W_WordsObject.short_atput0: the range test, then the half of word
\* index0 / 2 is replaced and the word stored
Words_short_atput0(o, index0, w_value) ==
    IF ~IsInt(w_value) THEN {[obj |-> o, result |-> UnwrappingError]}
    ELSE LET i_value == unwrap_int(w_value)
             word_index0 == index0 \div 2
         IN  IF ~int_between(-32768, i_value, 32768)
             THEN {[obj |-> o, result |-> PrimitiveFailedError]}
             ELSE UNION {IF IsFailure(word) THEN {[obj |-> o, result |-> word]}
                         ELSE LET value == IF index0 % 2 = 0
                                           THEN Word16(High16(word), i_value % 65536)
                                           ELSE Word16(i_value % 65536, Low16(word))
                              IN  {IF IsFailure(o1) THEN [obj |-> o, result |-> o1]
                                   ELSE [obj |-> o1, result |-> w_nil] :
                                      o1 \in Words_setword(o, word_index0, value)} :
                            word \in Words_getword(o, word_index0)}

short_at0(o, index0) ==
    IF o.cls = "W_BytesObject" THEN Bytes_short_at0(o, index0)
    ELSE Words_short_at0(o, index0)

short_atput0(o, index0, w_value, nv) ==
    IF o.cls = "W_BytesObject" THEN Bytes_short_atput0(o, index0, w_value, nv)
    ELSE Words_short_atput0(o, index0, w_value)

\* the half-words that lie inside the object
ShortIndices(o) ==
    {i \in 0..MaxShortIndex :
        IF o.cls = "W_BytesObject" THEN 2 * i + 1 < o._size ELSE i \div 2 < o._size}

ShortValues ==
    {wrap_int(v) : v \in {-32769, -32768, -1, 258, 32767}}

ShortAt0(o, index0) ==
    /\ \E r \in short_at0(heap[o], index0) :
          hist' = [op |-> "short_at0", obj |-> o, index |-> index0, result |-> r]
    /\ UNCHANGED <<heap, nextVersion>>
    /\ IndexedUnchanged

ShortAtput0(o, index0, w_value) ==
    /\ nextVersion + 1 < MaxVersion
    /\ \E r \in short_atput0(heap[o], index0, w_value, nextVersion) :
          /\ heap' = [heap EXCEPT ![o] = r.obj]
          /\ nextVersion' = IF heap[o].cls = "W_BytesObject" /\ r.obj # heap[o]
                            THEN nextVersion + 2 ELSE nextVersion
          /\ hist' = [op |-> "short_atput0", obj |-> o, index |-> index0,
                      value |-> w_value, result |-> r.result]
    /\ IndexedUnchanged

\* a sample bytes or words object, or a bytes object of two half-words
InitShort ==
    /\ \E K \in {"W_BytesObject", "W_WordsObject"}, k \in 1..3, wide \in BOOLEAN :
          heap = [o \in {"a"} |->
                    IF wide /\ K = "W_BytesObject"
                    THEN [Sample(K, k) EXCEPT !.bytes = <<98, 99, k, 128>>, !._size = 4]
                    ELSE Sample(K, k)]
    /\ shadow_w_self = NoShadows
    /\ nextVersion = 0
    /\ lastStored = [o \in {} |-> <<>>]
    /\ net = NoContexts
    /\ seenHash = [o \in {"a"} |-> NotSeen]
    /\ hist = NoHist

NextShort ==
    \/ \E o \in DOMAIN heap, index0 \in 0..MaxShortIndex : ShortAt0(o, index0)
    \/ \E o \in DOMAIN heap, index0 \in 0..MaxShortIndex, w_value \in ShortValues :
          ShortAtput0(o, index0, w_value)
    \/ \E o \in DOMAIN heap : ConvertToCLayout(o)

SpecShort == InitShort /\ [][NextShort]_vars

----------------------------------------------------------------------------
\* C1: strategy transparency: in a fresh non-weak generic slotted object,
\* after any sequence of stores, fetch(i) returns the last value stored at i
\* (nil if nothing was stored there), whatever generalizations happened.
C1_StrategyTransparency ==
    \A o \in DOMAIN heap :
        /\ GPO_size(heap[o]) = Len(lastStored[o])
        /\ \A n0 \in 0..(GPO_size(heap[o]) - 1) :
              GPO_fetch(heap[o], n0) = lastStored[o][n0 + 1]

\* the object has gone AllNil -> tagged -> List and holds a small integer, a
\* float and nil at once
C1_Witness ==
    /\ heap["g"].strategy = "ListStrategy"
    /\ hist.op = "store" /\ hist.before = "FloatOrNilStrategy"
    /\ GPO_size(heap["g"]) = 3
    /\ GPO_fetch(heap["g"], 0) = wrap_int(3)
    /\ GPO_fetch(heap["g"], 1) = wrap_float(1)
    /\ GPO_fetch(heap["g"], 2) = w_nil

\* C4: generalization monotonicity: no store moves the object to a more
\* specific strategy, and an object on List stays on List.
C4_Monotonic ==
    [][\A o \in DOMAIN heap :
          /\ StrategyRank(heap'[o].strategy) >= StrategyRank(heap[o].strategy)
          /\ (heap[o].strategy = "ListStrategy" => heap'[o].strategy = "ListStrategy")]_vars

\* a List object whose every slot has been overwritten with nil
C4_Witness ==
    /\ heap["g"].strategy = "ListStrategy"
    /\ hist.op = "store" /\ hist.before = "ListStrategy" /\ hist.w = w_nil
    /\ \A n0 \in 0..(GPO_size(heap["g"]) - 1) : GPO_fetch(heap["g"], n0) = w_nil

\* C2: become swap: after a.become(b) returns True, every content attribute,
\* the class reference and the identity hash of a are the former ones of b
\* and vice versa.
C2_BecomeSwap ==
    [][(hist'.op = "become" /\ hist'.result)
          => /\ \A f \in ContentAttrs(heap[hist'.a]) :
                    heap'[hist'.a][f] = heap[hist'.b][f]
             /\ \A f \in ContentAttrs(heap[hist'.b]) :
                    heap'[hist'.b][f] = heap[hist'.a][f]]_vars

C9_Bounds ==
    [][(hist'.op \in {"at0", "atput0", "fetch", "store", "getchar", "setchar"}
        /\ ~(0 <= hist'.index /\ hist'.index < hist'.size))
          => (hist'.result = IndexError /\ heap' = heap)]_vars

C5_StackDepthFromZero ==
    \A c \in DOMAIN heap \cap Contexts :
        (heap[c] # NoContext /\ ~heap[c].is_block_context /\ net[c].defined)
          => stackdepth(heap[c]) = net[c].n

\* C5 (amended): stackdepth() counts the temporaries: a freshly activated
\* method context has stackdepth() = tempsize(), and after any sequence of
\* push, pop, pop_n and store_stackpointer that writes no slot outside the
\* buffer, stackdepth() = tempsize() + values pushed - values popped.
C5_StackDiscipline ==
    \A c \in DOMAIN heap \cap Contexts :
        (heap[c] # NoContext /\ ~heap[c].is_block_context /\ net[c].defined)
          => stackdepth(heap[c]) = tempsize(heap[c]) + net[c].n

C5_Witness ==
    /\ hist.op = "pop_n" /\ hist.ctx = "H" /\ hist.n = 1 /\ hist.result = w_nil
    /\ net["H"].defined /\ net["H"].n = 1
    /\ tempsize(heap["H"]) = 2
    /\ stackdepth(heap["H"]) = 3

\* C6: a pop on the empty operand stack of a fresh method context, followed
\* by push(v): v is stored in an operand-stack slot, top() returns v, and
\* every temporary keeps the value it had before the pop.
C6_EmptyPopThenPush ==
    [][(/\ hist.op = "pop" /\ hist.ctx = "H" /\ hist.fresh /\ hist.empty
        /\ hist'.op = "push" /\ hist'.ctx = "H")
          => /\ hist'.result = w_nil
             /\ heap'["H"]._stack_ptr - 1 >= tempsize(heap'["H"])
             /\ top(heap'["H"]) = {hist'.w_v}
             /\ \A k \in 0..(tempsize(heap'["H"]) - 1) :
                   gettemp(heap', "H", k) = {hist.temps[k + 1]}]_vars

\* C7: block/home temp aliasing: with a block context B whose home is H,
\* after B.settemp(k, v) or H.settemp(k, v) both H.gettemp(k) and
\* B.gettemp(k) are v, and the buffer of B itself is not written.
C7_TempAliasing ==
    [][(hist'.op = "settemp" /\ heap["B"] # NoContext)
          => /\ gettemp(heap', "H", hist'.index) = {hist'.w_value}
             /\ gettemp(heap', "B", hist'.index) = {hist'.w_value}
             /\ heap'["B"]._temps_and_stack = heap["B"]._temps_and_stack]_vars

C7_Witness ==
    /\ hist.op = "settemp" /\ hist.ctx = "B" /\ hist.index = 1
    /\ heap["B"].is_block_context /\ s_home(heap, "B") = "H"
    /\ gettemp(heap, "H", 1) = {hist.w_value}

\* C8: method activation: create_frame with a method and as many arguments
\* as the method takes gives a context whose buffer has length
\* compute_frame_size(), with gettemp(i) = a_i for every argument and nil in
\* every other slot.
C8_Activation ==
    hist.op = "create_frame"
      => LET ctx == heap["H"]
             a   == hist.arguments
         IN  /\ Len(a) = hist.w_method.argsize
             /\ Len(ctx._temps_and_stack) = compute_frame_size(hist.w_method)
             /\ \A i \in 0..(Len(ctx._temps_and_stack) - 1) :
                   gettemp(heap, "H", i) = {IF i < Len(a) THEN a[i + 1] ELSE w_nil}

C8_Witness ==
    /\ hist.op = "create_frame"
    /\ hist.arguments = <<wrap_int(4), wrap_int(3)>>
    /\ Len(heap["H"]._temps_and_stack) = 18
    /\ tempsize(heap["H"]) = 3
    /\ gettemp(heap, "H", 0) = {wrap_int(4)}

\* C15: no failure is fatal: a push, pop, pop_n or store_stackpointer that
\* fails ends in one of the typed failures (IndexError, PrimitiveFailedError,
\* UnwrappingError, WrapperException, BlockCannotReturnError), never in an
\* assertion failure or an undefined state.
C15_NoFatalFailure ==
    (hist.op \in {"push", "pop", "pop_n", "store_stackpointer"} /\ IsFailure(hist.result))
      => hist.result.raise \in {"IndexError", "PrimitiveFailedError", "UnwrappingError",
                                "WrapperException", "BlockCannotReturnError"}

\* C17: clone() of a large integer, small pointers, bytes or words object
\* returns a distinct object of the same class with the same size(), the same
\* element values and an unassigned identity hash.
C17_Clone ==
    [][(hist'.op = "clone" /\ heap[hist'.result] = NoObject)
         => LET o == heap[hist'.obj]
                r == heap'[hist'.result]
            IN  /\ hist'.result # hist'.obj
                /\ r.cls = o.cls
                /\ W_size(r) = W_size(o)
                /\ \A i \in 0..(W_size(o) - 1) : W_at0(r, i) = W_at0(o, i)
                /\ r.hash = UNASSIGNED_HASH]_vars

\* C18: convert_to_c_layout keeps size() and every element, drops the native
\* list, and a second call returns the same buffer without allocating;
\* afterwards setchar / setword write the foreign buffer and getchar /
\* getword read what was written.
C18_CLayout ==
    [][/\ (hist'.op = "convert_to_c_layout")
           => LET o == heap[hist'.obj]
                  r == heap'[hist'.obj]
                  converted == IF o.cls = "W_BytesObject" THEN o.bytes = NoneSeq
                               ELSE o.words = NoneWords
              IN  /\ W_size(r) = W_size(o)
                  /\ \A i \in 0..(W_size(o) - 1) : W_at0(r, i) = W_at0(o, i)
                  /\ IF r.cls = "W_BytesObject"
                     THEN r.bytes = NoneSeq /\ hist'.result = r.c_bytes
                     ELSE r.words = NoneWords /\ hist'.result = r.c_words
                  /\ hist'.allocated = ~converted
                  /\ converted => r = o
       /\ (hist'.op = "setchar" /\ heap[hist'.obj].bytes = NoneSeq
             /\ hist'.index < hist'.size)
           => LET r == heap'[hist'.obj]
              IN  /\ r.bytes = NoneSeq
                  /\ Len(r.c_bytes) = Len(heap[hist'.obj].c_bytes)
                  /\ Bytes_getchar(r, hist'.index) = {wrap_int(hist'.value)}
                  /\ \A i \in 0..(r._size - 1) :
                        i # hist'.index
                          => Bytes_getchar(r, i) = Bytes_getchar(heap[hist'.obj], i)
       /\ (hist'.op = "setword" /\ heap[hist'.obj].words = NoneWords
             /\ hist'.index < hist'.size)
           => LET r == heap'[hist'.obj]
              IN  /\ r.words = NoneWords
                  /\ Words_getword(r, hist'.index) = {hist'.value}
                  /\ \A i \in 0..(r._size - 1) :
                        i # hist'.index
                          => Words_getword(r, i) = Words_getword(heap[hist'.obj], i)
      ]_vars

\* a second conversion of a bytes object whose buffer was written after the
\* first one
C18_Witness ==
    /\ hist.op = "convert_to_c_layout"
    /\ ~hist.allocated
    /\ heap[hist.obj].cls = "W_BytesObject"
    /\ heap[hist.obj].bytes = NoneSeq
    /\ heap[hist.obj].c_bytes[1] = 255

\* C19: after any sequence of become operations and shadow attachments on
\* generic objects, every shadow strategy attached to an object o points
\* back to o, and no shadow strategy is attached to two objects.
C19_ShadowBackReference ==
    LET generic == {o \in DOMAIN heap : heap[o].cls = "W_GenericPointersObject"}
        shadowed == {o \in generic : is_shadow(heap[o].strategy)}
    IN  /\ \A o \in shadowed : shadow_w_self[heap[o].strategy] = o
        /\ \A o1 \in shadowed, o2 \in shadowed :
              heap[o1].strategy = heap[o2].strategy => o1 = o2

\* a become that exchanged two shadowed objects, one of whose shadows was
\* attached by as_special_get_shadow
C19_Witness ==
    /\ hist.op = "become"
    /\ hist.result
    /\ heap[hist.a].cls = "W_GenericPointersObject"
    /\ heap[hist.a].strategy = "ObserveeShadow#4"
    /\ is_shadow(heap[hist.b].strategy)
    /\ shadow_w_self[heap[hist.b].strategy] = hist.b

\* C16: become between two pointer objects of different class and size (a
\* 2-field Point and a 3-element Array) succeeds, and each identity then
\* shows the other's former class, size and elements.
C16_PointerBecome ==
    [][LET a == hist'.a
           b == hist'.b
           pointers == {"W_SmallPointersObject", "W_GenericPointersObject"}
           size(o) == IF o.cls = "W_SmallPointersObject" THEN SPO_size(o)
                      ELSE Len(GPO_fetch_all(o))
           elements(o) == IF o.cls = "W_SmallPointersObject" THEN SPO_fetch_all(o)
                          ELSE GPO_fetch_all(o)
       IN  (/\ hist'.op = "become"
            /\ heap[a].cls \in pointers /\ heap[b].cls \in pointers
            /\ heap[a].w_class # heap[b].w_class
            /\ size(heap[a]) # size(heap[b]))
             => /\ hist'.result
                /\ heap'[a].w_class = heap[b].w_class
                /\ heap'[b].w_class = heap[a].w_class
                /\ size(heap'[a]) = size(heap[b])
                /\ size(heap'[b]) = size(heap[a])
                /\ elements(heap'[a]) = elements(heap[b])
                /\ elements(heap'[b]) = elements(heap[a])]_vars

\* C13: w_self() on a method context built without a pointers object
\* returns a pointers object, which the context then keeps as its own (so
\* that every later w_self() returns the same one) and whose fetch(i) is
\* the context's fetch(i).
C13_LazyWrapper ==
    hist.op = "w_self"
      => /\ ~IsFailure(hist.result)
         /\ heap[hist.ctx]._w_self = hist.result
         /\ as_context_get_shadow(heap, hist.result) = hist.ctx

\* C12: s_home() of a block activation whose home context is Returned fails
\* with BlockCannotReturnError.
C12_NonLocalReturn ==
    (/\ hist.op = "s_home"
     /\ pure_is_block_context(heap[hist.ctx])
     /\ is_returned(heap, s_home(heap, hist.ctx)))
      => hist.result = "BlockCannotReturnError"

\* C11 (as stated): once a context is Returned, no later operation on it,
\* indexed stores to its sender or pc slot included, makes is_returned()
\* false again.
C11_ReturnedTerminal ==
    [][\A c \in Contexts :
          (heap[c] # NoContext /\ is_returned(heap, c)) => is_returned(heap', c)]_vars

\* C11 (amended): a Returned context stays Returned under every operation
\* but an indexed store of a value other than nil to its sender slot or its
\* pc slot.
C11_ReturnedKept ==
    [][\A c \in Contexts :
          (/\ heap[c] # NoContext /\ is_returned(heap, c)
           /\ ~(/\ hist'.op = "ctx_store" /\ hist'.ctx = c
                /\ hist'.index \in {CTXPART_SENDER_INDEX, CTXPART_PC_INDEX}
                /\ hist'.value # w_nil))
            => is_returned(heap', c)]_vars

\* nil was stored to the pc slot of a Returned context
C11_Witness ==
    /\ hist.op = "ctx_store" /\ hist.ctx = "H"
    /\ hist.index = CTXPART_PC_INDEX /\ hist.value = w_nil
    /\ hist.was_returned
    /\ is_returned(heap, "H")

\* C14 (as stated): after a successful store(i, v) to a context with
\* stackstart <= i < size, fetch(i) gives v, whatever the stack pointer is.
C14_ReadAfterWriteAnywhere ==
    (/\ hist.op = "ctx_store" /\ ~IsFailure(hist.result)
     /\ stackstart(heap[hist.ctx]) <= hist.index
     /\ hist.index < stackend(heap[hist.ctx]))
      => fetch(heap, hist.ctx, hist.index) = {hist.value}

\* C14 (amended): a successful store(i, v) with stackstart <= i < size is
\* read back by fetch(i) when i is a temporary or lies below the stack
\* pointer; above the stack pointer the store leaves the context as it was
\* and fetch(i) gives nil.
C14_ReadAfterWrite ==
    [][(/\ hist'.op = "ctx_store" /\ ~IsFailure(hist'.result)
        /\ stackstart(heap[hist'.ctx]) <= hist'.index
        /\ hist'.index < stackend(heap[hist'.ctx]))
         => LET c == hist'.ctx
                i == hist'.index
            IN  IF \/ i - stackstart(heap[c]) < tempsize(heap[c])
                   \/ i < external_stackpointer(heap[c])
                THEN fetch(heap', c, i) = {hist'.value}
                ELSE /\ heap'[c] = heap[c]
                     /\ fetch(heap', c, i) = {w_nil}]_vars

\* a value was stored above the stack pointer of a context and nil is read
C14_Witness ==
    /\ hist.op = "ctx_store" /\ ~IsFailure(hist.result)
    /\ external_stackpointer(heap[hist.ctx]) <= hist.index
    /\ hist.index < stackend(heap[hist.ctx])
    /\ hist.value # w_nil
    /\ fetch(heap, hist.ctx, hist.index) = {w_nil}

\* C20 (as stated): an Active context becomes Dirty when an indexed store
\* rewrites its sender to nil or to a different context; mark_returned and
\* re-storing the identical sender leave the state unchanged; a context that
\* is not Active never becomes Dirty.
C20_DirtyAsStated ==
    [][\A c \in Contexts :
          heap[c] # NoContext =>
            LET senderStore ==
                    /\ hist'.op = "ctx_store" /\ hist'.ctx = c
                    /\ hist'.index = CTXPART_SENDER_INDEX /\ ~IsFailure(hist'.result)
                target == IF hist'.value = w_nil THEN "None"
                          ELSE as_context_get_shadow(heap, hist'.value)
            IN  /\ (senderStore /\ heap[c].state = "ActiveContext"
                      /\ target # heap[c]._s_sender)
                     => heap'[c].state = "DirtyContext"
                /\ ((senderStore /\ target = heap[c]._s_sender)
                      \/ (hist'.op = "mark_returned" /\ hist'.ctx = c))
                     => heap'[c].state = heap[c].state
                /\ heap[c].state \notin {"ActiveContext", "DirtyContext"}
                     => heap'[c].state # "DirtyContext"]_vars

\* C20 (amended): an indexed store of nil to the sender slot makes an Active
\* context Dirty even when its sender was nil already, and so does a store of
\* a different context; mark_returned and re-storing the identical context
\* leave the state unchanged; a context that is not Active never becomes
\* Dirty.
C20_DirtyTransition ==
    [][\A c \in Contexts :
          heap[c] # NoContext =>
            LET senderStore ==
                    /\ hist'.op = "ctx_store" /\ hist'.ctx = c
                    /\ hist'.index = CTXPART_SENDER_INDEX /\ ~IsFailure(hist'.result)
                target == IF hist'.value = w_nil THEN "None"
                          ELSE as_context_get_shadow(heap, hist'.value)
            IN  /\ (senderStore /\ heap[c].state = "ActiveContext"
                      /\ (hist'.value = w_nil \/ target # heap[c]._s_sender))
                     => heap'[c].state = "DirtyContext"
                /\ ((senderStore /\ hist'.value # w_nil /\ target = heap[c]._s_sender)
                      \/ (hist'.op = "mark_returned" /\ hist'.ctx = c))
                     => heap'[c].state = heap[c].state
                /\ heap[c].state \notin {"ActiveContext", "DirtyContext"}
                     => heap'[c].state # "DirtyContext"]_vars

\* the sender of an Active context was stored again and the context is
\* still Active
C20_Witness ==
    /\ hist.op = "ctx_store" /\ hist.ctx = "H"
    /\ hist.index = CTXPART_SENDER_INDEX /\ ~IsFailure(hist.result)
    /\ hist.value = ContextObject("B")
    /\ hist.state = "ActiveContext" /\ hist.s_sender = "B"
    /\ heap["H"].state = "ActiveContext"

\* C21 (as stated): fetch(i) on a context returns the live buffer element
\* i - stackstart for stackstart <= i < stackstart + stackdepth(), nil for
\* stackstart + stackdepth() <= i < size, and fails with WrapperException
\* for i >= size.
C21_StackRegionRead ==
    (hist.op = "ctx_fetch" /\ hist.index >= stackstart(heap[hist.ctx]))
      => LET ctx == heap[hist.ctx]
             i == hist.index
         IN  IF i < stackstart(ctx) + stackdepth(ctx)
             THEN hist.result = ctx._temps_and_stack[(i - stackstart(ctx)) + 1]
             ELSE IF i < stackend(ctx) THEN hist.result = w_nil
             ELSE hist.result = WrapperException

\* C21 (amended): as stated, but a temporary of a method context is read
\* from the buffer even when it lies at or above the stack pointer.
C21_StackRegionReadTemps ==
    (hist.op = "ctx_fetch" /\ hist.index >= stackstart(heap[hist.ctx]))
      => LET ctx == heap[hist.ctx]
             i == hist.index
         IN  IF \/ i < stackstart(ctx) + stackdepth(ctx)
                \/ i - stackstart(ctx) < tempsize(ctx)
             THEN hist.result = ctx._temps_and_stack[(i - stackstart(ctx)) + 1]
             ELSE IF i < stackend(ctx) THEN hist.result = w_nil
             ELSE hist.result = WrapperException

\* a temporary above the stack pointer was read: the value stored, not nil
C21_Witness ==
    /\ hist.op = "ctx_fetch" /\ hist.ctx = "H"
    /\ hist.index = MTHDCTX_TEMP_FRAME_START + 2
    /\ stackdepth(heap["H"]) = 2
    /\ hist.result = wrap_int(7)

\* C22: a pop on an already-empty operand stack returns the receiver of the
\* context and does not fail.
C22_EmptyPopFallback ==
    (hist.op = "pop" /\ hist.empty)
      => /\ ~IsFailure(hist.result)
         /\ hist.result = w_receiver(heap, hist.ctx)

\* C23 (as stated): on a method with L literals at0(0) returns the header,
\* at0(k) for k in 1..L returns literal k, and at0(i) for i at or beyond
\* bytecodeoffset() returns the bytecode byte i - bytecodeoffset().
C23_MethodRead ==
    hist.op = "m_at0"
      => LET m == heap[hist.obj]
             i == hist.index
         IN  /\ i = 0 => hist.result = wrap_int(m.header)
             /\ (1 <= i /\ i <= m.literalsize) => hist.result = m.literals[i]
             /\ (bytecodeoffset(m) <= i /\ i < CM_size(m))
                  => hist.result = wrap_int(m.bytes[(i - bytecodeoffset(m)) + 1])

\* C23 (amended): the index counts bytes: at0(i) returns the header for i in
\* 0..3, literal k for i in 4k..4k+3 with k in 1..L, and the bytecode byte
\* i - bytecodeoffset() for bytecodeoffset() <= i < size().
C23_MethodReadByByte ==
    hist.op = "m_at0"
      => LET m == heap[hist.obj]
             i == hist.index
         IN  /\ i < BYTES_PER_WORD => hist.result = wrap_int(m.header)
             /\ \A k \in 1..m.literalsize :
                   (BYTES_PER_WORD * k <= i /\ i < BYTES_PER_WORD * k + BYTES_PER_WORD)
                     => hist.result = m.literals[k]
             /\ (bytecodeoffset(m) <= i /\ i < CM_size(m))
                  => hist.result = wrap_int(m.bytes[(i - bytecodeoffset(m)) + 1])

\* the second literal of a method was read at byte index 8
C23_Witness ==
    /\ hist.op = "m_at0" /\ hist.index = 2 * BYTES_PER_WORD
    /\ heap[hist.obj].literalsize = 2
    /\ hist.result = heap[hist.obj].literals[2]
    /\ hist.result # w_nil

\* C24: atput0(i, v) on a method with i below bytecodeoffset() and i not a
\* multiple of the word size fails with PrimitiveFailedError and changes
\* nothing; with i a bytecode index it replaces the bytecode byte
\* i - bytecodeoffset() and leaves header, literals and the other bytecodes
\* as they were.
C24_MethodStore ==
    [][hist'.op = "m_atput0"
         => LET m == heap[hist'.obj]
                n == heap'[hist'.obj]
                i == hist'.index
            IN  /\ (i < bytecodeoffset(m) /\ i % BYTES_PER_WORD # 0)
                     => hist'.result = PrimitiveFailedError /\ n = m
                /\ (bytecodeoffset(m) <= i /\ i < CM_size(m) /\ IsInt(hist'.value))
                     => /\ hist'.result = w_nil
                        /\ n.bytes = [m.bytes EXCEPT ![(i - bytecodeoffset(m)) + 1] =
                                                     unwrap_int(hist'.value)]
                        /\ n.header = m.header /\ n.literals = m.literals
                        /\ n.literalsize = m.literalsize]_vars

\* a bytecode of a method with literals was replaced
C24_Witness ==
    /\ hist.op = "m_atput0" /\ hist.result = w_nil
    /\ hist.index = bytecodeoffset(heap[hist.obj]) + 1
    /\ heap[hist.obj].literalsize = 1
    /\ heap[hist.obj].bytes = <<16, 65>>

\* C25: lshift of a small integer or of a one-word large integer by
\* shift > 0 returns exactly value * 2^shift, as a positive large integer
\* only for a receiver that is not negative, or fails with
\* PrimitiveFailedError, and it fails only when the product does not fit
\* (in unsigned 32 bits for a receiver that is not negative, in signed 32
\* bits for a negative one); no truncated or sign-flipped value is returned.
C25_LeftShift ==
    hist.op = "lshift"
      => LET o == heap[hist.obj]
             n == hist.shift
             r == hist.result
             \* the receiver is not negative: a large integer counts unsigned
             large == o.cls = "W_LargePositiveInteger1Word"
             fits == IF o.value >= 0 THEN o.value \div (2 ^ (31 - n)) < 2
                     ELSE ~large /\ o.value \div (2 ^ (31 - n)) >= -1
             \* the bits below bit n of word s are zero
             lowzero(s) == IF n = 31 THEN s \in {0, -MAXINT - 1} ELSE s % (2 ^ n) = 0
             \* floor(s / 2^n) of the signed word s
             quot(s) == IF n = 31 THEN (IF s < 0 THEN -1 ELSE 0) ELSE s \div (2 ^ n)
         IN  IF IsFailure(r) THEN r = PrimitiveFailedError /\ ~fits
             ELSE IF "cls" \in DOMAIN r
             THEN \* a large integer: the unsigned word r.value + 2^32
                  /\ r.cls = "W_LargePositiveInteger1Word" /\ r.value < 0
                  /\ o.value >= 0
                  /\ lowzero(r.value)
                  /\ (quot(r.value) + 2 ^ (31 - n)) + 2 ^ (31 - n) = o.value
             ELSE /\ r.t = "int" /\ ~(large /\ o.value < 0)
                  /\ lowzero(r.v)
                  /\ quot(r.v) = o.value

\* 3 << 30 = 3221225472 was returned as a large integer
C25_Witness ==
    /\ hist.op = "lshift" /\ hist.shift = 30
    /\ heap[hist.obj] = W_SmallInteger(3)
    /\ hist.result = W_LargePositiveInteger1Word(-(2 ^ 30))

\* C26: rshift of a small integer is the arithmetic shift, floor(value /
\* 2^shift); rshift of a one-word large integer by 1..31 is the unsigned word
\* divided by 2^shift rounded down, with zero bits shifted in from the top.
C26_RightShift ==
    (hist.op = "rshift" /\ hist.shift >= 1)
      => LET o == heap[hist.obj]
             n == hist.shift
             r == hist.result
             \* q = floor(s / 2^n) for the signed word s
             floors(q, s) == IF n = 31 THEN q = (IF s < 0 THEN -1 ELSE 0)
                             ELSE q * (2 ^ n) <= s /\ s - q * (2 ^ n) < 2 ^ n
         IN  /\ ~IsFailure(r) /\ "t" \in DOMAIN r /\ r.t = "int"
             /\ IF o.cls = "W_SmallInteger" \/ o.value >= 0
                THEN floors(r.v, o.value)
                ELSE \* the unsigned word is (o.value + 2^31) + 2^31
                     /\ r.v >= 2 ^ (31 - n)
                     /\ floors(r.v - 2 ^ (31 - n), (o.value + MAXINT) + 1)

\* 4294967295 >> 1 = 2147483647 on a large integer
C26_Witness ==
    /\ hist.op = "rshift" /\ hist.shift = 1
    /\ heap[hist.obj] = W_LargePositiveInteger1Word(-1)
    /\ hist.result = wrap_int(MAXINT)

\* C27: in every state reached through convert_to_c_layout, clone and become
\* an object that references a foreign buffer has no native array and an
\* object without native array references a buffer, so that destroying the
\* objects releases each buffer, once.
C27_BufferOwnership ==
    \A o \in DOMAIN heap :
        heap[o] # NoObject
          => /\ foreign_buffer(heap[o]) # NoneSeq => no_native_array(heap[o])
             /\ del_releases(heap[o]) => foreign_buffer(heap[o]) # NoneSeq

\* C28: every setchar and every become that changes the bytes read through
\* a bytes object gives that object, either participant of a become
\* included, a new version tag, so that unwrap_string, cached per version,
\* returns the current bytes.
C28_VersionTag ==
    [][hist'.op \in {"setchar", "become"}
         => LET touched == IF hist'.op = "setchar" THEN {hist'.obj}
                           ELSE {hist'.a, hist'.b}
            IN  \A o \in touched :
                   (/\ heap[o].cls = "W_BytesObject"
                    /\ Bytes_unwrap_string(heap'[o]) # Bytes_unwrap_string(heap[o]))
                     => heap'[o].version # heap[o].version]_vars

\* C29 (as stated): generalization target: a store whose value the current
\* strategy cannot hold moves AllNil to SmallIntegerOrNil on a small integer,
\* to FloatOrNil on a float, to List on any other non-nil value, and moves
\* SmallIntegerOrNil and FloatOrNil to List; storing nil never changes the
\* strategy; the slots not written keep their values.
C29_GeneralizationTarget ==
    [][hist'.op = "store"
         => LET o == hist'.obj
                w == hist'.w
                s == heap[o].strategy
                s2 == heap'[o].strategy
            IN  /\ (w = w_nil => s2 = s)
                /\ ((s = "AllNilStrategy" /\ w.t = "int")
                       => s2 = "SmallIntegerOrNilStrategy")
                /\ ((s = "AllNilStrategy" /\ w.t = "float")
                       => s2 = "FloatOrNilStrategy")
                /\ ((s = "AllNilStrategy" /\ w.t = "obj") => s2 = "ListStrategy")
                /\ ((IsTagging(s) /\ ~_check_can_handle(s, w))
                       => s2 = "ListStrategy")
                /\ \A k \in 0..(GPO_size(heap[o]) - 1) :
                       k # hist'.n0 => GPO_fetch(heap'[o], k) = GPO_fetch(heap[o], k)]_vars

\* C29 (amended): as above, but the small integer equal to the integer
\* sentinel and the float equal to the float sentinel move an AllNil object
\* to List, since the tagging strategy of their type cannot hold them; a
\* value the current strategy can hold leaves the strategy alone.
C29_GeneralizationTargetSentinel ==
    [][hist'.op = "store"
         => LET o == hist'.obj
                w == hist'.w
                s == heap[o].strategy
                s2 == heap'[o].strategy
                reserved(t) == w = strategy_wrap(t, unwrapped_tagged_value(t))
            IN  /\ (w = w_nil => s2 = s)
                /\ (_check_can_handle(s, w) => s2 = s)
                /\ ((s = "AllNilStrategy" /\ w.t = "int")
                       => s2 = IF reserved("SmallIntegerOrNilStrategy")
                               THEN "ListStrategy" ELSE "SmallIntegerOrNilStrategy")
                /\ ((s = "AllNilStrategy" /\ w.t = "float")
                       => s2 = IF reserved("FloatOrNilStrategy")
                               THEN "ListStrategy" ELSE "FloatOrNilStrategy")
                /\ ((s = "AllNilStrategy" /\ w.t = "obj") => s2 = "ListStrategy")
                /\ ((IsTagging(s) /\ ~_check_can_handle(s, w))
                       => s2 = "ListStrategy")
                /\ \A k \in 0..(GPO_size(heap[o]) - 1) :
                       k # hist'.n0 => GPO_fetch(heap'[o], k) = GPO_fetch(heap[o], k)]_vars

\* the small integer MAXINT stored into an AllNil object of three slots has
\* moved it to List; the other slots still read nil
C29_Witness ==
    /\ hist.op = "store" /\ hist.before = "AllNilStrategy"
    /\ hist.w = wrap_int(MAXINT) /\ hist.n0 = 1
    /\ heap["g"].strategy = "ListStrategy"
    /\ GPO_size(heap["g"]) = 3
    /\ GPO_fetch(heap["g"], 0) = w_nil /\ GPO_fetch(heap["g"], 2) = w_nil

\* C30: sentinel safety: the small integer MAXINT stored into an object on
\* SmallIntegerOrNilStrategy reads back as that small integer, and no slot
\* whose last stored value is nil reads back as the small integer MAXINT.
C30_SentinelSafety ==
    [][hist'.op = "store"
         => LET o == hist'.obj
            IN  /\ ((hist'.before = "SmallIntegerOrNilStrategy"
                       /\ hist'.w = wrap_int(unwrapped_tagged_value("SmallIntegerOrNilStrategy")))
                      => GPO_fetch(heap'[o], hist'.n0) = hist'.w)
                /\ \A k \in 0..(GPO_size(heap'[o]) - 1) :
                       lastStored'[o][k + 1] = w_nil
                         => GPO_fetch(heap'[o], k) # wrap_int(MAXINT)]_vars

\* MAXINT has just been stored into an object that was on
\* SmallIntegerOrNilStrategy with a small integer and a nil slot
C30_Witness ==
    /\ hist.op = "store" /\ hist.before = "SmallIntegerOrNilStrategy"
    /\ hist.w = wrap_int(MAXINT) /\ hist.n0 = 1
    /\ GPO_size(heap["g"]) = 3
    /\ GPO_fetch(heap["g"], 0) = wrap_int(3)
    /\ GPO_fetch(heap["g"], 1) = wrap_int(MAXINT)
    /\ GPO_fetch(heap["g"], 2) = w_nil

C33_WeakStorage ==
    heap["w"] # NoObject
      => /\ Len(lastStored["w"]) = W_size_any(heap["w"])
         /\ \A k \in 0..(W_size_any(heap["w"]) - 1) :
               LET v == lastStored["w"][k + 1]
                   r == Weak_fetch(heap["w"], k)
               IN  IF k < heap["w"].instsize \/ v.t \in {"int", "bytes"}
                   THEN r = v
                   ELSE r \in {v, w_nil}

C35_ClosureActivation ==
    /\ hist.op = "build_method_context"
         => LET ctx == heap["H"]
                closure == hist.closure
                argc == Len(hist.arguments)
                n == Len(closure.copied)
            IN  /\ \A i \in 0..(argc - 1) :
                      gettemp(heap, "H", i) = {hist.arguments[i + 1]}
                /\ \A j \in 0..(n - 1) :
                      gettemp(heap, "H", argc + j) = {closure.copied[j + 1]}
                /\ ctx._pc = (closure.startpc - bytecodeoffset(hist.w_method)) - 1
                /\ ctx._stack_ptr = n + closure.numArgs
    /\ hist.op = "create_frame"
         => /\ heap["H"]._pc = 0
            /\ heap["H"]._stack_ptr = hist.w_method._tempsize

\* the method with three temporaries activated through a closure with one
\* argument and two captured values, starting at pc 13
C35_Witness ==
    /\ hist.op = "build_method_context"
    /\ hist.closure.startpc = 13 /\ hist.arguments = <<wrap_int(3)>>
    /\ hist.w_method._tempsize = 3 /\ hist.w_method.argsize = 2
    /\ gettemp(heap, "H", 0) = {wrap_int(3)}
    /\ gettemp(heap, "H", 1) = {wrap_int(5)}
    /\ gettemp(heap, "H", 2) = {w_obj(2)}
    /\ heap["H"]._pc = 0
    /\ heap["H"]._stack_ptr = 3

\* C36: become returns False only for two values of different kind or for
\* one and the same object: a.become(b) for two distinct objects of one
\* kind, two bytes objects with equal bytes and two floats of equal value
\* included, returns True and exchanges identity hashes and class references.
C36_BecomeDistinct ==
    [][(/\ hist'.op = "become"
        /\ hist'.a # hist'.b
        /\ heap[hist'.a].cls = heap[hist'.b].cls)
         => /\ hist'.result
            /\ heap'[hist'.a].hash = heap[hist'.b].hash
            /\ heap'[hist'.b].hash = heap[hist'.a].hash
            /\ "w_class" \in DOMAIN heap[hist'.a]
                 => /\ heap'[hist'.a].w_class = heap[hist'.b].w_class
                    /\ heap'[hist'.b].w_class = heap[hist'.a].w_class]_vars

\* C37: compiled-in class cache: on a method with no lookup class,
\* compiled_in() gives the class named by the current last literal (none if
\* it names no class), also after setliteral / literalatput0 has replaced
\* the last literal: it never gives a class cached from the previous one.
C37_CompiledInFresh ==
    [][(hist'.op = "compiled_in" /\ heap[hist'.obj].lookup_class = "None")
         => LET literals == heap[hist'.obj].literals
            IN  hist'.result =
                   IF Len(literals) > 0 /\ literals[Len(literals)].t \in {"class", "assoc"}
                   THEN ClassNames[literals[Len(literals)].v]
                   ELSE "None"]_vars

\* C38: program-counter round trip: a store of w into the pc slot of a
\* context that does not fail, for w = nil or an integer w >= the method's
\* bytecodeoffset(), is followed by a fetch of the pc slot that returns w,
\* and leaves the pc at the sentinel -1 only for w = nil.
C38_PcRoundTrip ==
    [][(/\ hist'.op = "ctx_store" /\ hist'.index = CTXPART_PC_INDEX
        /\ ~IsFailure(hist'.result)
        /\ \/ hist'.value = w_nil
           \/ /\ IsInt(hist'.value)
              /\ unwrap_int(hist'.value) >= bytecodeoffset(w_method(heap, hist'.ctx)))
         => /\ fetch(heap', hist'.ctx, CTXPART_PC_INDEX) = {hist'.value}
            /\ heap'[hist'.ctx]._pc = -1 => hist'.value = w_nil]_vars

C40_ShortRoundTrip ==
    [][(/\ hist'.op = "short_atput0" /\ IsInt(hist'.value)
        /\ hist'.index \in ShortIndices(heap[hist'.obj]))
         => LET o == hist'.obj
                i == hist'.index
                v == unwrap_int(hist'.value)
            IN  IF -32768 <= v /\ v <= 32767
                THEN /\ ~IsFailure(hist'.result)
                     /\ short_at0(heap'[o], i) = {wrap_int(v)}
                     /\ \A j \in (0..MaxShortIndex) \ {i} :
                           short_at0(heap'[o], j) = short_at0(heap[o], j)
                ELSE /\ hist'.result = PrimitiveFailedError
                     /\ heap'[o] = heap[o]]_vars

C40_Witness ==
    /\ hist.op = "short_atput0"
    /\ ~IsFailure(hist.result)
    /\ unwrap_int(hist.value) < 0
    /\ hist.index = 1
    /\ heap[hist.obj].cls = "W_WordsObject"
    /\ short_at0(heap[hist.obj], 0) # short_at0(heap[hist.obj], 1)
====
